---- MODULE Spec2Model ----
(***************************************************************************)
(* Model of the tutor hook registry (tutor/hooks.py, tutor/hooks/), of the *)
(* job runner (tutor/jobs.py) and of the Kubernetes task runner            *)
(* (tutor/commands/k8s.py).                                                *)
(*                                                                         *)
(* Optional values of the Python code (Optional[int], Optional[str]) are   *)
(* sequences of length at most one: <<>> is None, <<v>> is the value v.    *)
(***************************************************************************)
EXTENDS Integers, Sequences, FiniteSets, TLC

VARIABLES
    hooks_module,          \* which tutor.hooks is imported: hooks.py or the hooks/ package
    registrations_by_hook, \* hooks.py: _HookCallbackRegistry.registrations_by_hook
    current_contexts,      \* hooks.py: _HookCallbackRegistry.current_contexts
    actions,               \* hooks/actions.py: Actions.actions
    filters,               \* hooks/filters.py: Filters.filters
    CURRENT,               \* hooks/contexts.py: Contextualized.CURRENT
    next_id,               \* identity of the next callback object to be created
    last,                  \* the last fire / apply call and the callbacks it visited
    with_blocks,           \* the "with enter_context(...)" blocks in progress, innermost last
    loading,               \* plugins/__init__.py: the call of _load_plugins, and what it did
    run,                   \* jobs.py: the outermost run_job call, its state and outcome
    job_frames,            \* jobs.py: the frames of the nested run_job calls
    handed,                \* jobs.py: the run_task calls made so far, with their results
    k8s_calls,             \* commands/k8s.py: the calls of K8sJobRunner.run_task
    namespace_jobs,        \* the jobs of the Kubernetes namespace, in creation order
    jobs_yml               \* the file k8s/jobs.yml of the project root

hook_vars == <<hooks_module, registrations_by_hook, current_contexts,
               actions, filters, CURRENT, next_id, last, with_blocks, loading>>

block_vars == <<with_blocks, loading>>

registry_vars == <<registrations_by_hook, current_contexts>>

legacy_vars == <<actions, filters, CURRENT>>

job_vars == <<run, job_frames, handed>>

k8s_vars == <<k8s_calls, namespace_jobs, jobs_yml>>

vars == <<hook_vars, job_vars, k8s_vars>>

\* What the operations on the hooks leave alone.
beyond_hooks == <<job_vars, k8s_vars, block_vars>>

----------------------------------------------------------------------------
(* Bounds *)

MaxRegs == 3

\* The polls of the cluster that one call of run_task makes at most
MaxPolls == 3

\* The "with enter_context" blocks that are in progress at the same time at most
MaxDepth == 2

\* The registrations made while blocks are entered and left step by step
MaxTagged == 2

\* The calls of docker_compose that are recorded at most
MaxCalls == 2

----------------------------------------------------------------------------
(* Names *)

None == <<>>

Some(v) == <<v>>

ActionNames == {"core:ready"}

FilterNames == {"test:sheeps"}

HookNames == ActionNames \cup FilterNames

ContextNames == {"ctx1", "ctx2"}

OptContexts == {None} \cup {Some(c) : c \in ContextNames}

EARLY == 5

DEFAULT == 10

DEFAULT_PRIORITY == 10

\* The priority arguments of Action.handle (hooks.py) and of Actions.on (hooks/).
HandlePriorities == {None, Some(0), Some(EARLY), Some(DEFAULT)}

OnPriorities == {None, Some(0), Some(EARLY)}

----------------------------------------------------------------------------
(* Helpers on sequences *)

Range(s) == {s[i] : i \in DOMAIN s}

InsertAt(s, pos, e) == SubSeq(s, 1, pos) \o <<e>> \o SubSeq(s, pos + 1, Len(s))

----------------------------------------------------------------------------
(* hooks.py: _HookCallbackRegistry *)

\* Variant: only the innermost context is kept.
CurrentContextInnermost(stack) ==
    IF stack = <<>> THEN {} ELSE {stack[Len(stack)]}

\* frozenset(self.current_contexts)
CurrentContextSet(stack) == Range(stack)

\* priority or 0
RegisterPriority(priority) ==
    IF priority = None \/ priority[1] = 0 THEN 0 ELSE priority[1]

\* Variant: the comparison of the loop is strict, so a new registration goes before
\* the registrations of equal priority.
RECURSIVE InsertPositionStrict(_, _, _)
InsertPositionStrict(registrations, priority, position) ==
    IF position < Len(registrations)
         /\ registrations[position + 1].priority < priority
    THEN InsertPositionStrict(registrations, priority, position + 1)
    ELSE position

\* The while loop of register: the first position whose priority is greater than
\* the new one (the number of leading registrations with priority <= the new one).
RECURSIVE InsertPosition(_, _, _)
InsertPosition(registrations, priority, position) ==
    IF position < Len(registrations)
         /\ registrations[position + 1].priority <= priority
    THEN InsertPosition(registrations, priority, position + 1)
    ELSE position

NewRegistration(stack, callback, priority) ==
    [contexts |-> CurrentContextSet(stack),
     callback |-> callback,
     priority |-> RegisterPriority(priority)]

RegistryRegister(registrations, stack, callback, priority) ==
    LET new_registration == NewRegistration(stack, callback, priority)
        position == InsertPosition(registrations, new_registration.priority, 0)
    IN  InsertAt(registrations, position, new_registration)

\* Variant: get ignores the context.
GetSelectsAll(registration, context) == TRUE

\* (not context) or context in registration.contexts
GetSelects(registration, context) ==
    \/ context = None
    \/ context[1] = ""
    \/ context[1] \in registration.contexts

\* The callbacks that get() yields, in the order it yields them.
RegistryGet(registrations, context) ==
    LET selected == SelectSeq(registrations, LAMBDA r : GetSelects(r, context))
    IN  [i \in DOMAIN selected |-> selected[i].callback]

\* Variant: clear also drops the registrations made outside any context.
ClearKeepsScoped(registration, context) ==
    /\ context /= None
    /\ context[1] /= ""
    /\ registration.contexts /= {}
    /\ context[1] \notin registration.contexts

\* context and context not in registration.contexts
ClearKeeps(registration, context) ==
    /\ context /= None
    /\ context[1] /= ""
    /\ context[1] \notin registration.contexts

\* A clear that goes through the registrations of every hook
RegistryClearEveryHook(registry, hook_name, context) ==
    [name \in DOMAIN registry |->
        SelectSeq(registry[name], LAMBDA r : ClearKeeps(r, context))]

\* clear: the registry after clear(hook_name, context)
RegistryClear(registry, hook_name, context) ==
    IF hook_name \notin DOMAIN registry THEN registry
    ELSE [registry EXCEPT ![hook_name] =
             SelectSeq(@, LAMBDA r : ClearKeeps(r, context))]

\* clear_all: clear is called for each hook name of the registry in turn.
RECURSIVE RegistryClearEach(_, _, _)
RegistryClearEach(registry, hook_names, context) ==
    IF hook_names = {} THEN registry
    ELSE LET hook_name == CHOOSE n \in hook_names : TRUE
         IN  RegistryClearEach(RegistryClear(registry, hook_name, context),
                               hook_names \ {hook_name}, context)

RegistryClearAll(registry, context) ==
    RegistryClearEach(registry, DOMAIN registry, context)

----------------------------------------------------------------------------
(* hooks.py: Action and Filter *)

\* Filter.add_items: the callback returns value + items.
ItemsCallback(id, items) == [id |-> id, items |-> items]

\* Variant: the callback puts its items before the value.
CallbackApplyPrepending(callback, value) == callback.items \o value

CallbackApply(callback, value) == value \o callback.items

RECURSIVE ApplyCallbacks(_, _)
ApplyCallbacks(callbacks, value) ==
    IF callbacks = <<>> THEN value
    ELSE ApplyCallbacks(Tail(callbacks), CallbackApply(Head(callbacks), value))

\* The turns of the loop of apply: the callback called, the value it received
\* and the value it returned.
RECURSIVE ApplySteps(_, _)
ApplySteps(callbacks, value) ==
    IF callbacks = <<>> THEN <<>>
    ELSE LET returned == CallbackApply(Head(callbacks), value)
         IN  <<[id |-> Head(callbacks).id, received |-> value, returned |-> returned]>>
                 \o ApplySteps(Tail(callbacks), returned)

FilterApply(registry, name, starting_value, context) ==
    ApplyCallbacks(RegistryGet(registry[name], context), starting_value)

FilterIterate(registry, name, context) ==
    FilterApply(registry, name, <<>>, context)

\* The callbacks fire calls, in call order.
ActionFire(registry, name, context) ==
    LET callbacks == RegistryGet(registry[name], context)
    IN  [i \in DOMAIN callbacks |-> callbacks[i].id]

\* Variant: the except clause does not re-raise, the loop goes on.
RECURSIVE CallsSuppressingRaise(_, _)
CallsSuppressingRaise(callbacks, raiser) ==
    IF callbacks = <<>> THEN <<>>
    ELSE <<Head(callbacks).id>> \o CallsSuppressingRaise(Tail(callbacks), raiser)

\* The loop of Action.fire, Filter.apply, Actions.do and Filters.apply over the
\* callbacks, when the callback raiser raises as it is called: the callbacks
\* called, in call order.  "except: sys.stderr.write(...); raise" ends the loop.
RECURSIVE CallsUntilRaise(_, _)
CallsUntilRaise(callbacks, raiser) ==
    IF callbacks = <<>> THEN <<>>
    ELSE IF Head(callbacks).id = raiser THEN <<Head(callbacks).id>>
    ELSE <<Head(callbacks).id>> \o CallsUntilRaise(Tail(callbacks), raiser)

\* The call of fire / apply / do that ends by the exception of raiser
RaisedCall(op, name, context, callbacks, raiser) ==
    [op |-> op, name |-> name, context |-> context,
     result |-> CallsUntilRaise(callbacks, raiser), raiser |-> raiser]

\* The callback is among those the call selects.
IsSelected(callbacks, raiser) == \E i \in DOMAIN callbacks : callbacks[i].id = raiser

----------------------------------------------------------------------------
(* Operations on the registry *)

NoCall == [op |-> "none", name |-> "", context |-> None, result |-> <<>>]

\* No call of _load_plugins yet, and no plugin installed
NoLoading ==
    [pc |-> "idle", installed |-> {}, given |-> <<>>, names |-> <<>>,
     position |-> 1, events |-> <<>>]

\* enter_context: self.current_contexts.append(context)
PushContext(stack, context) == Append(stack, context)

\* The finally clause of enter_context: self.current_contexts.pop()
PopContext(stack) == SubSeq(stack, 1, Len(stack) - 1)

\* The stack inside the block of "with enter_context(c):" (within = Some(c)), or
\* outside any such block (within = None).
StackWithin(stack, within) ==
    IF within = None THEN stack ELSE PushContext(stack, within[1])

\* The stack when that block, if any, has been left.
StackAfter(stack, within) ==
    IF within = None THEN stack ELSE PopContext(StackWithin(stack, within))

\* Action.handle(priority=...)(callback), possibly in a block "with enter_context"
Handle(within, name, priority) ==
    /\ hooks_module = "hooks.py"
    /\ next_id <= MaxRegs
    /\ registrations_by_hook' =
           [registrations_by_hook EXCEPT ![name] =
               RegistryRegister(@, StackWithin(current_contexts, within),
                                ItemsCallback(next_id, <<next_id>>), priority)]
    /\ current_contexts' = StackAfter(current_contexts, within)
    /\ next_id' = next_id + 1
    /\ last' = NoCall
    /\ UNCHANGED <<beyond_hooks, hooks_module, legacy_vars>>

\* Filter.add_item(item), possibly in a block "with enter_context": the item is
\* the identity of the callback.
AddItem(within, name) ==
    /\ hooks_module = "hooks.py"
    /\ next_id <= MaxRegs
    /\ registrations_by_hook' =
           [registrations_by_hook EXCEPT ![name] =
               RegistryRegister(@, StackWithin(current_contexts, within),
                                ItemsCallback(next_id, <<next_id>>), None)]
    /\ current_contexts' = StackAfter(current_contexts, within)
    /\ next_id' = next_id + 1
    /\ last' = NoCall
    /\ UNCHANGED <<beyond_hooks, hooks_module, legacy_vars>>

Fire(name, context) ==
    /\ hooks_module = "hooks.py"
    /\ last' = [op |-> "fire", name |-> name, context |-> context,
                result |-> ActionFire(registrations_by_hook, name, context)]
    /\ UNCHANGED <<beyond_hooks, hooks_module, registry_vars, next_id, legacy_vars>>

Apply(name, context) ==
    /\ hooks_module = "hooks.py"
    /\ last' = [op |-> "apply", name |-> name, context |-> context,
                result |-> FilterApply(registrations_by_hook, name, <<>>, context)]
    /\ UNCHANGED <<beyond_hooks, hooks_module, registry_vars, next_id, legacy_vars>>

\* Action.fire in which the callback raiser raises
FireRaising(name, context, raiser) ==
    /\ hooks_module = "hooks.py"
    /\ LET callbacks == RegistryGet(registrations_by_hook[name], context)
       IN  /\ IsSelected(callbacks, raiser)
           /\ last' = RaisedCall("fire raised", name, context, callbacks, raiser)
    /\ UNCHANGED <<beyond_hooks, hooks_module, registry_vars, next_id, legacy_vars>>

\* Filter.apply in which the callback raiser raises
ApplyRaising(name, context, raiser) ==
    /\ hooks_module = "hooks.py"
    /\ LET callbacks == RegistryGet(registrations_by_hook[name], context)
       IN  /\ IsSelected(callbacks, raiser)
           /\ last' = RaisedCall("apply raised", name, context, callbacks, raiser)
    /\ UNCHANGED <<beyond_hooks, hooks_module, registry_vars, next_id, legacy_vars>>

Clear(name, context) ==
    /\ hooks_module = "hooks.py"
    /\ registrations_by_hook' = RegistryClear(registrations_by_hook, name, context)
    /\ last' = NoCall
    /\ UNCHANGED <<beyond_hooks, hooks_module, current_contexts, next_id, legacy_vars>>

ClearAll(context) ==
    /\ hooks_module = "hooks.py"
    /\ registrations_by_hook' = RegistryClearAll(registrations_by_hook, context)
    /\ last' = NoCall
    /\ UNCHANGED <<beyond_hooks, hooks_module, current_contexts, next_id, legacy_vars>>

----------------------------------------------------------------------------
(* hooks/contexts.py, hooks/actions.py, hooks/filters.py *)

\* Contextualized.__init__: self.contexts = self.CURRENT[:]
ContextsCopy(stack) == stack

\* Contextualized.is_in_context
IsInContext(hook, context) ==
    \/ context = None
    \/ context[1] \in Range(hook.contexts)

\* Action.__init__: self.priority = priority or DEFAULT_PRIORITY
ActionPriority(priority) ==
    IF priority = None \/ priority[1] = 0 THEN DEFAULT_PRIORITY ELSE priority[1]

NewAction(stack, func, priority) ==
    [contexts |-> ContextsCopy(stack),
     func |-> func,
     priority |-> ActionPriority(priority)]

\* Actions.on
ActionsOn(named_actions, stack, func, priority) ==
    LET action == NewAction(stack, func, priority)
        position == InsertPosition(named_actions, action.priority, 0)
    IN  InsertAt(named_actions, position, action)

\* Actions.do: the callbacks that Action.do runs, in call order.
ActionsDo(named_actions, context) ==
    LET done == SelectSeq(named_actions, LAMBDA a : IsInContext(a, context))
    IN  [i \in DOMAIN done |-> done[i].func.id]

\* Actions.clear and Filters.clear: the dict after clear(name, context)
ContextualizedClear(hooks, name, context) ==
    IF name \notin DOMAIN hooks THEN hooks
    ELSE [hooks EXCEPT ![name] = SelectSeq(@, LAMBDA h : ~IsInContext(h, context))]

\* Actions.clear_all and Filters.clear_all: clear is called for each name in turn.
RECURSIVE ContextualizedClearEach(_, _, _)
ContextualizedClearEach(hooks, names, context) ==
    IF names = {} THEN hooks
    ELSE LET name == CHOOSE n \in names : TRUE
         IN  ContextualizedClearEach(ContextualizedClear(hooks, name, context),
                                     names \ {name}, context)

ContextualizedClearAll(hooks, context) ==
    ContextualizedClearEach(hooks, DOMAIN hooks, context)

NewFilter(stack, func) == [contexts |-> ContextsCopy(stack), func |-> func]

\* Filters.add
FiltersAdd(named_filters, stack, func) ==
    Append(named_filters, NewFilter(stack, func))

\* Filter.apply
LegacyFilterApply(filtre, value, context) ==
    IF IsInContext(filtre, context) THEN CallbackApply(filtre.func, value) ELSE value

\* Filters.apply
RECURSIVE FiltersApply(_, _, _)
FiltersApply(named_filters, value, context) ==
    IF named_filters = <<>> THEN value
    ELSE FiltersApply(Tail(named_filters),
                      LegacyFilterApply(Head(named_filters), value, context),
                      context)

\* enter: for name in names: cls.CURRENT.append(name)
LegacyPush(stack, names) == stack \o names

\* Variant: one pop, however many names were pushed.
LegacyPopOnce(stack, count) == SubSeq(stack, 1, Len(stack) - 1)

\* The finally clause of enter: one pop for each name.
RECURSIVE LegacyPop(_, _)
LegacyPop(stack, count) ==
    IF count = 0 THEN stack ELSE LegacyPop(PopContext(stack), count - 1)

\* hooks.actions.on(name, priority)(func) in a block "with contexts.enter(*names)"
\* (no names: outside any such block).
LegacyOn(names, name, priority) ==
    /\ hooks_module = "hooks/"
    /\ next_id <= MaxRegs
    /\ actions' = [actions EXCEPT ![name] =
                      ActionsOn(@, LegacyPush(CURRENT, names),
                                ItemsCallback(next_id, <<next_id>>), priority)]
    /\ CURRENT' = LegacyPop(LegacyPush(CURRENT, names), Len(names))
    /\ next_id' = next_id + 1
    /\ last' = NoCall
    /\ UNCHANGED <<beyond_hooks, hooks_module, registry_vars, filters>>

\* hooks.filters.add_item(name, item) in a block "with contexts.enter(*names)"
LegacyAddItem(names, name) ==
    /\ hooks_module = "hooks/"
    /\ next_id <= MaxRegs
    /\ filters' = [filters EXCEPT ![name] =
                      FiltersAdd(@, LegacyPush(CURRENT, names),
                                 ItemsCallback(next_id, <<next_id>>))]
    /\ CURRENT' = LegacyPop(LegacyPush(CURRENT, names), Len(names))
    /\ next_id' = next_id + 1
    /\ last' = NoCall
    /\ UNCHANGED <<beyond_hooks, hooks_module, registry_vars, actions>>

LegacyDo(name, context) ==
    /\ hooks_module = "hooks/"
    /\ last' = [op |-> "do", name |-> name, context |-> context,
                result |-> ActionsDo(actions[name], context)]
    /\ UNCHANGED <<beyond_hooks, hooks_module, registry_vars, legacy_vars, next_id>>

LegacyApply(name, context) ==
    /\ hooks_module = "hooks/"
    /\ last' = [op |-> "apply", name |-> name, context |-> context,
                result |-> FiltersApply(filters[name], <<>>, context)]
    /\ UNCHANGED <<beyond_hooks, hooks_module, registry_vars, legacy_vars, next_id>>

\* The functions that Actions.do / Filters.apply call: those of the hooks that
\* are in the context
FuncsInContext(hooks, context) ==
    LET called == SelectSeq(hooks, LAMBDA h : IsInContext(h, context))
    IN  [i \in DOMAIN called |-> called[i].func]

\* Actions.do in which the function raiser raises
LegacyDoRaising(name, context, raiser) ==
    /\ hooks_module = "hooks/"
    /\ LET callbacks == FuncsInContext(actions[name], context)
       IN  /\ IsSelected(callbacks, raiser)
           /\ last' = RaisedCall("do raised", name, context, callbacks, raiser)
    /\ UNCHANGED <<beyond_hooks, hooks_module, registry_vars, legacy_vars, next_id>>

\* Filters.apply in which the function raiser raises
LegacyApplyRaising(name, context, raiser) ==
    /\ hooks_module = "hooks/"
    /\ LET callbacks == FuncsInContext(filters[name], context)
       IN  /\ IsSelected(callbacks, raiser)
           /\ last' = RaisedCall("apply raised", name, context, callbacks, raiser)
    /\ UNCHANGED <<beyond_hooks, hooks_module, registry_vars, legacy_vars, next_id>>

LegacyActionsClear(name, context) ==
    /\ hooks_module = "hooks/"
    /\ actions' = ContextualizedClear(actions, name, context)
    /\ last' = NoCall
    /\ UNCHANGED <<beyond_hooks, hooks_module, registry_vars, filters, CURRENT, next_id>>

LegacyActionsClearAll(context) ==
    /\ hooks_module = "hooks/"
    /\ actions' = ContextualizedClearAll(actions, context)
    /\ last' = NoCall
    /\ UNCHANGED <<beyond_hooks, hooks_module, registry_vars, filters, CURRENT, next_id>>

LegacyFiltersClear(name, context) ==
    /\ hooks_module = "hooks/"
    /\ filters' = ContextualizedClear(filters, name, context)
    /\ last' = NoCall
    /\ UNCHANGED <<beyond_hooks, hooks_module, registry_vars, actions, CURRENT, next_id>>

LegacyFiltersClearAll(context) ==
    /\ hooks_module = "hooks/"
    /\ filters' = ContextualizedClearAll(filters, context)
    /\ last' = NoCall
    /\ UNCHANGED <<beyond_hooks, hooks_module, registry_vars, actions, CURRENT, next_id>>

----------------------------------------------------------------------------
(* jobs.py: the declarations of jobs *)

JobNames == {"init", "pre-init"}

\* A job name that no filter of jobs.py has an entry for
UndeclaredJob == "undeclared"

ServiceNames == {"lms", "cms", "mysql"}

JobFilterNames == {"JOB_PREREQS", "JOB_TASKS", "COMMANDS_INIT", "COMMANDS_PRE_INIT"}

\* hooks.Contexts.APP(plugin_name): the context "app:<plugin_name>"
APP(plugin_name) ==
    CASE plugin_name = "lms" -> "app:lms"
      [] plugin_name = "cms" -> "app:cms"
      [] plugin_name = "mysql" -> "app:mysql"
      [] plugin_name = "discovery" -> "app:discovery"
      [] plugin_name = "mfe" -> "app:mfe"

\* The argument vector of the task of a job in a service, as _add_core_jobs
\* declares it: ("sh", "/openedx/tasks/openedx/<service>/<job>")
TaskCommand(job_name, service) == <<"sh", <<"/openedx/tasks/openedx", service, job_name>>>>

\* An entry of JOB_TASKS
JobTask(job_name, service) == <<job_name, service, TaskCommand(job_name, service)>>

\* The template path of a legacy COMMANDS_INIT / COMMANDS_PRE_INIT entry
LegacyPath(job_name, service) == <<"hooks", service, job_name>>

\* The tasks a plugin or the core may declare: (job, service, scope), the scope
\* being that of the service or none.
TaskDeclarations ==
    {<<"init", "lms", Some("lms")>>, <<"init", "cms", Some("cms")>>,
     <<"init", "mysql", None>>,
     <<"pre-init", "lms", Some("lms")>>, <<"pre-init", "cms", Some("cms")>>}

\* The prerequisite edges a plugin or the core may declare: (job, prerequisite,
\* scope), the scope being that of an app or none.
PrereqDeclarations ==
    {<<"init", "pre-init", None>>, <<"pre-init", "init", None>>,
     <<"init", "pre-init", Some("cms")>>}

LegacyDeclarations ==
    {<<"COMMANDS_INIT", "init", "lms">>, <<"COMMANDS_INIT", "init", "cms">>,
     <<"COMMANDS_PRE_INIT", "pre-init", "cms">>}

NoRun ==
    [status |-> "idle", job_name |-> "", limit_to |-> "", runner |-> "",
     error |-> [kind |-> "none", job_name |-> "", prereq_name |-> "",
                chain |-> <<>>]]

\* Filter.add_items(items) on one of the filters of jobs.py, possibly in a block
\* "with hooks.Contexts.APP(app).enter()" (within = Some(app)).
JobsAddItems(within, filter_name, items) ==
    /\ run.status = "idle"
    /\ next_id <= MaxRegs
    /\ LET app_context == IF within = None THEN None ELSE Some(APP(within[1]))
       IN  /\ registrations_by_hook' =
                  [registrations_by_hook EXCEPT ![filter_name] =
                      RegistryRegister(@, StackWithin(current_contexts, app_context),
                                       ItemsCallback(next_id, items), None)]
           /\ current_contexts' = StackAfter(current_contexts, app_context)
    /\ next_id' = next_id + 1
    /\ UNCHANGED <<hooks_module, legacy_vars, last, block_vars, job_vars, k8s_vars>>

\* hooks.Filters.JOB_PREREQS.add_items([(name, prereq_name)])
DeclarePrereq(within, name, prereq_name) ==
    JobsAddItems(within, "JOB_PREREQS", <<<<name, prereq_name>>>>)

\* hooks.Filters.JOB_PREREQS.add_items([(name, prereq_name), ...]): one call
\* that declares several edges
DeclarePrereqs(within, edges) == JobsAddItems(within, "JOB_PREREQS", edges)

\* hooks.Filters.JOB_TASKS.add_items([(name, service, command)])
DeclareTask(within, name, service) ==
    JobsAddItems(within, "JOB_TASKS", <<JobTask(name, service)>>)

\* hooks.Filters.COMMANDS_INIT.add_item((service, path)), and COMMANDS_PRE_INIT
DeclareLegacyCommand(filter_name, name, service) ==
    JobsAddItems(None, filter_name, <<<<service, LegacyPath(name, service)>>>>)

----------------------------------------------------------------------------
(* jobs.py: BaseJobRunner.run_job *)

\* The extra_args of the caller
ExtraArgs == <<"user1", "--staff">>

\* BaseJobRunner.render: the text of the template at path
Render(path) == <<"rendered", path>>

\* utils.shlex_join(*args): the shell words of the command, in order
ShlexJoin(args) == [words |-> args]

\* A run_job that ignores limit_to
LimitedContextNone(limit_to) == None

\* limited_context = hooks.Contexts.APP(limit_to).name if limit_to else None
LimitedContext(limit_to) == IF limit_to = "" THEN None ELSE Some(APP(limit_to))

\* A check that only sees a job that is its own prerequisite
IsCyclicSelf(job_name, job_call_stack) ==
    job_call_stack /= <<>> /\ job_name = job_call_stack[Len(job_call_stack)]

\* job_call_stack and job_name in job_call_stack
IsCyclic(job_name, job_call_stack) ==
    job_call_stack /= <<>> /\ job_name \in Range(job_call_stack)

\* A call stack that holds the caller only
CalleeStackCallerOnly(job_name, job_call_stack) == <<job_name>>

\* (job_call_stack or []) + [job_name]
CalleeStack(job_name, job_call_stack) == job_call_stack \o <<job_name>>

\* A lookup of the prerequisites that is limited as the lookup of the tasks is
PrereqContextLimited(limit_to) == LimitedContext(limit_to)

\* hooks.Filters.JOB_PREREQS.iterate(): the lookup of the prerequisites is given
\* no context, whatever limit_to is.
PrereqContext(limit_to) == None

\* A run_job that passes no extra_args down to a prerequisite
CalleeExtraArgsNone(extra_args) == <<>>

\* extra_args=extra_args: the extra_args that run_job passes to the run_job of
\* a prerequisite
CalleeExtraArgs(extra_args) == extra_args

\* The limit_to that run_job passes to the run_job of a prerequisite
CalleeLimit(limit_to) == limit_to

\* The frame of a call run_job(job_name, limit_to, extra_args, job_call_stack):
\* job_prereqs is list(hooks.Filters.JOB_PREREQS.iterate()), position the index of
\* the entry the for loop is at.
NewFrame(registry, job_name, limit_to, extra_args, job_call_stack) ==
    [job_name |-> job_name,
     limit_to |-> limit_to,
     extra_args |-> extra_args,
     job_call_stack |-> job_call_stack,
     job_prereqs |-> FilterIterate(registry, "JOB_PREREQS", PrereqContext(limit_to)),
     position |-> 1,
     phase |-> "prereqs",
     tasks |-> <<>>,
     task_position |-> 1]

\* A for loop that finds no prerequisite
NextPrereqNone(job_prereqs, job_name, position) == Len(job_prereqs) + 1

\* The for loop over job_prereqs: the index of the next entry, from position on,
\* whose name is job_name (Len + 1 when there is none).
RECURSIVE NextPrereq(_, _, _)
NextPrereq(job_prereqs, job_name, position) ==
    IF position > Len(job_prereqs) THEN position
    ELSE IF job_prereqs[position][1] = job_name THEN position
    ELSE NextPrereq(job_prereqs, job_name, position + 1)

\* A list of tasks that takes the tasks of every job
TasksOfAny(job_tasks, job_name) ==
    [i \in DOMAIN job_tasks |-> <<job_tasks[i][2], job_tasks[i][3]>>]

\* A list of tasks put in the alphabetical order of the services
TasksOfSorted(job_tasks, job_name) ==
    LET named == SelectSeq(job_tasks, LAMBDA task : task[1] = job_name)
        sorted == SelectSeq(named, LAMBDA task : task[2] = "cms")
                  \o SelectSeq(named, LAMBDA task : task[2] = "lms")
                  \o SelectSeq(named, LAMBDA task : task[2] = "mysql")
    IN  [i \in DOMAIN sorted |-> <<sorted[i][2], sorted[i][3]>>]

\* tasks = [(service, command) for name, service, command in job_tasks
\*          if name == job_name]
TasksOf(job_tasks, job_name) ==
    LET named == SelectSeq(job_tasks, LAMBDA task : task[1] = job_name)
    IN  [i \in DOMAIN named |-> <<named[i][2], named[i][3]>>]

\* The compat_tasks of run_job, rendered into shell commands
CompatTasks(registry, job_name, limited_context) ==
    LET compat_tasks ==
            IF job_name = "init"
            THEN FilterIterate(registry, "COMMANDS_INIT", limited_context)
            ELSE IF job_name = "pre-init"
            THEN FilterIterate(registry, "COMMANDS_PRE_INIT", limited_context)
            ELSE <<>>
    IN  [i \in DOMAIN compat_tasks |->
            <<compat_tasks[i][1], <<"sh", "-c", Render(compat_tasks[i][2])>>>>]

\* The list tasks of run_job when its "Run tasks" loop starts
CollectedTasks(registry, job_name, limit_to) ==
    LET limited_context == LimitedContext(limit_to)
        job_tasks == FilterIterate(registry, "JOB_TASKS", limited_context)
    IN  TasksOf(job_tasks, job_name) \o CompatTasks(registry, job_name, limited_context)

\* A command string with the extra_args put before the command
CommandStringArgsFirst(command, extra_args) == ShlexJoin(extra_args \o command)

\* command_string = utils.shlex_join(*command, *extra_args)
CommandString(command, extra_args) == ShlexJoin(command \o extra_args)

Top == job_frames[Len(job_frames)]

SetTop(frame) == [job_frames EXCEPT ![Len(job_frames)] = frame]

\* The outermost call: runner.run_job(job_name, limit_to, extra_args)
StartRunJob(job_name, limit_to, runner) ==
    /\ run.status = "idle"
    /\ run' = [run EXCEPT !.status = "running", !.job_name = job_name,
                          !.limit_to = limit_to, !.runner = runner]
    /\ job_frames' = <<NewFrame(registrations_by_hook, job_name, limit_to,
                                ExtraArgs, <<>>)>>
    /\ UNCHANGED <<hook_vars, handed, k8s_vars>>

\* A run_job that remembers the jobs it ran: a prerequisite whose tasks were
\* handed already is not run again
CallPrereqMemoized ==
    /\ run.status = "running"
    /\ Top.phase = "prereqs"
    /\ LET position == NextPrereq(Top.job_prereqs, Top.job_name, Top.position)
       IN  /\ position <= Len(Top.job_prereqs)
           /\ ~IsCyclic(Top.job_name, Top.job_call_stack)
           /\ job_frames' =
                  IF \E i \in DOMAIN handed :
                         handed[i].job_name = Top.job_prereqs[position][2]
                  THEN SetTop([Top EXCEPT !.position = position + 1])
                  ELSE Append(SetTop([Top EXCEPT !.position = position]),
                              NewFrame(registrations_by_hook,
                                       Top.job_prereqs[position][2],
                                       CalleeLimit(Top.limit_to),
                                       CalleeExtraArgs(Top.extra_args),
                                       CalleeStack(Top.job_name, Top.job_call_stack)))
    /\ UNCHANGED <<hook_vars, run, handed, k8s_vars>>

\* The for loop reaches an entry (job_name, prereq_name) and the job is not in
\* the call stack: self.run_job(prereq_name, ...)
CallPrereq ==
    /\ run.status = "running"
    /\ Top.phase = "prereqs"
    /\ LET position == NextPrereq(Top.job_prereqs, Top.job_name, Top.position)
       IN  /\ position <= Len(Top.job_prereqs)
           /\ ~IsCyclic(Top.job_name, Top.job_call_stack)
           /\ job_frames' =
                  Append(SetTop([Top EXCEPT !.position = position]),
                         NewFrame(registrations_by_hook,
                                  Top.job_prereqs[position][2],
                                  CalleeLimit(Top.limit_to),
                                  CalleeExtraArgs(Top.extra_args),
                                  CalleeStack(Top.job_name, Top.job_call_stack)))
    /\ UNCHANGED <<hook_vars, run, handed, k8s_vars>>

\* A run_job that runs the tasks of the job before it raises for the cycle
RaiseCyclicAfterTasks ==
    /\ run.status = "running"
    /\ Top.phase = "prereqs"
    /\ LET position == NextPrereq(Top.job_prereqs, Top.job_name, Top.position)
           tasks == CollectedTasks(registrations_by_hook, Top.job_name, Top.limit_to)
       IN  /\ position <= Len(Top.job_prereqs)
           /\ IsCyclic(Top.job_name, Top.job_call_stack)
           /\ handed' = handed \o
                  [i \in DOMAIN tasks |->
                      [job_name |-> Top.job_name,
                       service |-> tasks[i][1],
                       command |-> CommandString(tasks[i][2], Top.extra_args),
                       result |-> [raised |-> FALSE, code |-> 0]]]
           /\ run' = [run EXCEPT
                         !.status = "raised",
                         !.error = [kind |-> "cyclic",
                                    job_name |-> Top.job_name,
                                    prereq_name |-> Top.job_prereqs[position][2],
                                    chain |-> Top.job_call_stack \o <<Top.job_name>>]]
    /\ job_frames' = <<>>
    /\ UNCHANGED <<hook_vars, k8s_vars>>

\* The for loop reaches an entry (job_name, prereq_name) and the job is in the
\* call stack: raise TutorError("Cyclic job prerequisite detected ...").  No
\* frame of run_job catches it.
RaiseCyclic ==
    /\ run.status = "running"
    /\ Top.phase = "prereqs"
    /\ LET position == NextPrereq(Top.job_prereqs, Top.job_name, Top.position)
       IN  /\ position <= Len(Top.job_prereqs)
           /\ IsCyclic(Top.job_name, Top.job_call_stack)
           /\ run' = [run EXCEPT
                         !.status = "raised",
                         !.error = [kind |-> "cyclic",
                                    job_name |-> Top.job_name,
                                    prereq_name |-> Top.job_prereqs[position][2],
                                    chain |-> Top.job_call_stack \o <<Top.job_name>>]]
    /\ job_frames' = <<>>
    /\ UNCHANGED <<hook_vars, handed, k8s_vars>>

\* A collection of the tasks that takes them out of the registry
CollectTasksConsuming ==
    /\ run.status = "running"
    /\ Top.phase = "prereqs"
    /\ NextPrereq(Top.job_prereqs, Top.job_name, Top.position) > Len(Top.job_prereqs)
    /\ job_frames' =
           SetTop([Top EXCEPT
                      !.phase = "tasks",
                      !.position = Len(Top.job_prereqs) + 1,
                      !.tasks = CollectedTasks(registrations_by_hook,
                                               Top.job_name, Top.limit_to)])
    /\ registrations_by_hook' = [registrations_by_hook EXCEPT !["JOB_TASKS"] = <<>>]
    /\ UNCHANGED <<hooks_module, current_contexts, legacy_vars, next_id, last,
                   block_vars, run, handed, k8s_vars>>

\* The for loop over job_prereqs ends: the tasks of the job are collected.
CollectTasks ==
    /\ run.status = "running"
    /\ Top.phase = "prereqs"
    /\ NextPrereq(Top.job_prereqs, Top.job_name, Top.position) > Len(Top.job_prereqs)
    /\ job_frames' =
           SetTop([Top EXCEPT
                      !.phase = "tasks",
                      !.position = Len(Top.job_prereqs) + 1,
                      !.tasks = CollectedTasks(registrations_by_hook,
                                               Top.job_name, Top.limit_to)])
    /\ UNCHANGED <<hook_vars, run, handed, k8s_vars>>

\* ComposeJobRunner: the task runs in a one-off container and the exit code of
\* docker-compose is returned as it is, zero or not.
LocalRunTaskResults == {[raised |-> FALSE, code |-> 0], [raised |-> FALSE, code |-> 1]}

\* K8sJobRunner.run_task: returns 0, or raises TutorError when the job failed.
K8sRunTaskResults == {[raised |-> FALSE, code |-> 0], [raised |-> TRUE, code |-> 0]}

\* What run_task of the runner can do with a task
RunTaskResults(runner) ==
    IF runner = "local" THEN LocalRunTaskResults ELSE K8sRunTaskResults

\* for service, command in tasks: self.run_task(service, command_string); the
\* value that run_task returns is not used.
RunTask(result) ==
    /\ run.status = "running"
    /\ Top.phase = "tasks"
    /\ Top.task_position <= Len(Top.tasks)
    /\ result \in RunTaskResults(run.runner)
    /\ LET task == Top.tasks[Top.task_position]
       IN  handed' = Append(handed,
                            [job_name |-> Top.job_name,
                             service |-> task[1],
                             command |-> CommandString(task[2], Top.extra_args),
                             result |-> result])
    /\ IF result.raised
       THEN /\ run' = [run EXCEPT !.status = "raised", !.error.kind = "backend"]
            /\ job_frames' = <<>>
       ELSE /\ job_frames' = SetTop([Top EXCEPT !.task_position = @ + 1])
            /\ UNCHANGED run
    /\ UNCHANGED <<hook_vars, k8s_vars>>

\* The loop over tasks ends and run_job returns, to the for loop of its caller
\* if it has one.
ReturnFromJob ==
    /\ run.status = "running"
    /\ Top.phase = "tasks"
    /\ Top.task_position > Len(Top.tasks)
    /\ IF Len(job_frames) = 1
       THEN /\ job_frames' = <<>>
            /\ run' = [run EXCEPT !.status = "returned"]
       ELSE /\ LET callers == SubSeq(job_frames, 1, Len(job_frames) - 1)
                   caller == callers[Len(callers)]
               IN  job_frames' =
                       [callers EXCEPT ![Len(callers)] =
                           [caller EXCEPT !.position = @ + 1]]
            /\ UNCHANGED run
    /\ UNCHANGED <<hook_vars, handed, k8s_vars>>

LimitChoices == {"", "lms"}

RunnerNames == {"local", "k8s"}

JobsInit ==
    /\ hooks_module = "hooks.py"
    /\ registrations_by_hook = [name \in JobFilterNames |-> <<>>]
    /\ current_contexts = <<>>
    /\ actions = [name \in ActionNames |-> <<>>]
    /\ filters = [name \in FilterNames |-> <<>>]
    /\ CURRENT = <<>>
    /\ next_id = 1
    /\ last = NoCall
    /\ with_blocks = <<>>
    /\ loading = NoLoading
    /\ run = NoRun
    /\ job_frames = <<>>
    /\ handed = <<>>
    /\ k8s_calls = <<>>
    /\ namespace_jobs = <<>>
    /\ jobs_yml = None

JobsNext ==
    \/ \E d \in PrereqDeclarations : DeclarePrereq(d[3], d[1], d[2])
    \/ \E d \in TaskDeclarations : DeclareTask(d[3], d[1], d[2])
    \/ \E d \in LegacyDeclarations : DeclareLegacyCommand(d[1], d[2], d[3])
    \/ \E job_name \in JobNames \cup {UndeclaredJob}, limit_to \in LimitChoices,
          runner \in RunnerNames :
           StartRunJob(job_name, limit_to, runner)
    \/ CallPrereq
    \/ RaiseCyclic
    \/ CollectTasks
    \/ \E runner \in RunnerNames : \E result \in RunTaskResults(runner) :
           RunTask(result)
    \/ ReturnFromJob

SpecJobs == JobsInit /\ [][JobsNext]_vars

\* The jobs of the prerequisite graphs with three jobs
ResolveJobs == {"init", "pre-init", "createuser"}

\* The edges (job, prerequisite) of these graphs: chains, a diamond's sides,
\* cycles of one, two and three jobs.
ResolveDeclarations ==
    {<<"init", "pre-init">>, <<"pre-init", "init">>, <<"init", "createuser">>,
     <<"createuser", "pre-init">>, <<"pre-init", "createuser">>,
     <<"createuser", "createuser">>}

\* The lists of edges that one call of add_items declares: a job with two
\* prerequisites.
ResolveEdgeLists == {<<<<"init", "pre-init">>, <<"init", "createuser">>>>}

\* A step of run_job and of the calls it makes: the thread of the call is never
\* stopped for ever, and run_task returns.
RunStep ==
    \/ CallPrereq
    \/ RaiseCyclic
    \/ CollectTasks
    \/ \E result \in RunTaskResults("local") : RunTask(result)
    \/ ReturnFromJob

\* Declarations of prerequisites among three jobs and of their tasks, then one
\* run_job of the local runner.
ResolveNext ==
    \/ \E d \in ResolveDeclarations : DeclarePrereq(None, d[1], d[2])
    \/ \E edges \in ResolveEdgeLists : DeclarePrereqs(None, edges)
    \/ \E job_name \in ResolveJobs : DeclareTask(None, job_name, "mysql")
    \/ \E job_name \in ResolveJobs : StartRunJob(job_name, "", "local")
    \/ RunStep

SpecResolve == JobsInit /\ [][ResolveNext]_vars /\ WF_vars(RunStep)

----------------------------------------------------------------------------
(* commands/k8s.py: K8sJobRunner.run_task *)

\* sleep(5)
PollInterval == 5

\* task["spec"]["backoffLimit"] = 1
BackoffLimit == 1

\* task["spec"]["ttlSecondsAfterFinished"] = 3600
TtlSecondsAfterFinished == 3600

\* shell_command = ["sh", "-e", "-c"]
ShellCommand == <<"sh", "-e", "-c">>

\* task_name = f"{service}-job", then task_name += "-" + <timestamp>
TaskName(service, timestamp) == <<service, "job", timestamp>>

\* containers[0].get("command") of the template of a task: no such key, the
\* empty list, or an entrypoint of its own
TemplateCommands == {None, Some(<<>>), Some(<<"entrypoint">>)}

\* The status of a job of the namespace: status.active, status.succeeded and
\* status.failed, as truth values
JobStatuses == [active : BOOLEAN, succeeded : BOOLEAN, failed : BOOLEAN]

\* A job of somebody else in the namespace
OtherJob == TaskName("other", 0)

OtherJobStatuses ==
    {[active |-> TRUE, succeeded |-> FALSE, failed |-> FALSE],
     [active |-> FALSE, succeeded |-> TRUE, failed |-> FALSE]}

\* A job of the namespace; it is listed by the API some time after its creation.
NamespaceJob(name, listed, status) == [name |-> name, listed |-> listed, status |-> status]

\* K8sJobRunner.active_task_names
ActiveTaskNames(jobs) ==
    {jobs[i].name : i \in {k \in DOMAIN jobs : jobs[k].listed /\ jobs[k].status.active}}

\* list_namespaced_job(namespace, field_selector="metadata.name=<task_name>").items
NamespacedTasks(jobs, task_name) ==
    LET found == SelectSeq(jobs, LAMBDA job : job.listed /\ job.name = task_name)
    IN  [i \in DOMAIN found |-> found[i].status]

\* A configuration that always puts the shell command in args and never
\* touches the command of the template
PatchedTaskArgsOnly(task_name, template_command, command) ==
    [name |-> task_name,
     label |-> task_name,
     command |-> template_command,
     args |-> ShellCommand \o <<command>>,
     backoffLimit |-> BackoffLimit,
     ttlSecondsAfterFinished |-> TtlSecondsAfterFinished]

\* "Configure task": the template of the task with its name, label, command,
\* args, backoffLimit and ttlSecondsAfterFinished set
PatchedTask(task_name, template_command, command) ==
    [name |-> task_name,
     label |-> task_name,
     command |-> IF template_command = Some(<<>>)
                 THEN Some(ShellCommand) ELSE template_command,
     args |-> IF template_command = Some(<<>>)
              THEN <<command>> ELSE ShellCommand \o <<command>>,
     backoffLimit |-> BackoffLimit,
     ttlSecondsAfterFinished |-> TtlSecondsAfterFinished]

\* kubectl apply --kustomize <root> --selector app.kubernetes.io/name=<task_name>:
\* the job of jobs.yml is created when its label is the one selected and the
\* namespace has no job of that name.
KubectlApply(jobs, file, task_name) ==
    IF /\ file /= None
       /\ file[1].label = task_name
       /\ \A i \in DOMAIN jobs : jobs[i].name /= file[1].name
    THEN Append(jobs, NamespaceJob(file[1].name, FALSE,
                                   [active |-> FALSE, succeeded |-> FALSE,
                                    failed |-> FALSE]))
    ELSE jobs

\* Where run_task goes on after a poll of the active tasks while it always
\* proceeds
AfterActivePollProceeds(active_tasks) == "configure"

\* while True: active_tasks = ...; if not active_tasks: break; ...; sleep(5)
AfterActivePoll(active_tasks) ==
    IF active_tasks = {} THEN "configure" ELSE "sleep_active"

\* Where run_task goes on after a poll of the status when the failed flag is
\* looked at first
AfterStatusPollFailedFirst(items) ==
    IF items = <<>> THEN "completion"
    ELSE IF ~items[1].active
         THEN IF items[1].failed THEN "raised"
              ELSE IF items[1].succeeded THEN "returned"
              ELSE "sleep_completion"
         ELSE "sleep_completion"

\* A loop that goes back to the wait for the other tasks while the job is
\* active
AfterStatusPollWaitsAgain(items) ==
    IF items = <<>> THEN "completion"
    ELSE IF ~items[1].active
         THEN IF items[1].succeeded THEN "returned"
              ELSE IF items[1].failed THEN "raised"
              ELSE "sleep_completion"
         ELSE "wait_active"

\* A loop that takes a job with both flags set as not finished yet
AfterStatusPollOneFlag(items) ==
    IF items = <<>> THEN "completion"
    ELSE IF ~items[1].active /\ items[1].succeeded /\ ~items[1].failed
    THEN "returned"
    ELSE IF ~items[1].active /\ items[1].failed /\ ~items[1].succeeded
    THEN "raised"
    ELSE "sleep_completion"

\* A loop that never leaves: it sleeps and polls again whatever the status is
AfterStatusPollNeverEnds(items) ==
    IF items = <<>> THEN "completion" ELSE "sleep_completion"

\* A loop that looks at the succeeded and failed flags of an active job too
AfterStatusPollIgnoringActive(items) ==
    IF items = <<>> THEN "completion"
    ELSE IF items[1].succeeded THEN "returned"
    ELSE IF items[1].failed THEN "raised"
    ELSE "sleep_completion"

\* A loop that applies the manifest again when the job has failed
AfterStatusPollRetrying(items) ==
    IF items = <<>> THEN "completion"
    ELSE IF ~items[1].active
         THEN IF items[1].succeeded THEN "returned"
              ELSE IF items[1].failed THEN "apply"
              ELSE "sleep_completion"
         ELSE "sleep_completion"

\* The body of the loop "Wait for completion": continue when the job is not
\* listed, break when it is not active and has succeeded, raise when it is not
\* active and has failed, sleep(5) otherwise
AfterStatusPoll(items) ==
    IF items = <<>> THEN "completion"
    ELSE IF ~items[1].active
         THEN IF items[1].succeeded THEN "returned"
              ELSE IF items[1].failed THEN "raised"
              ELSE "sleep_completion"
         ELSE "sleep_completion"

NoOutcome == [kind |-> "none", code |-> 0, task_name |-> <<>>]

\* return 0
Returned == [kind |-> "returned", code |-> 0, task_name |-> <<>>]

\* raise exceptions.TutorError(f"Task {task_name} failed. ...")
Raised(task_name) == [kind |-> "raised", code |-> 0, task_name |-> task_name]

IdleCall ==
    [pc |-> "idle", service |-> "", command |-> "", task_name |-> <<>>,
     template_command |-> None, log |-> <<>>, outcome |-> NoOutcome]

\* An operation of run_task on its environment
Op(op, value) == [op |-> op, value |-> value]

PollOps == {"active_task_names", "list_namespaced_job"}

Polls(log) == Len(SelectSeq(log, LAMBDA entry : entry.op \in PollOps))

\* run_task(service, command): the template of the task is loaded and the task
\* is named
K8sRunTask(r, service, template_command) ==
    /\ k8s_calls[r].pc = "idle"
    /\ k8s_calls' = [k8s_calls EXCEPT ![r] =
           [@ EXCEPT !.pc = "wait_active",
                     !.service = service,
                     !.command = "command",
                     !.task_name = TaskName(service, r),
                     !.template_command = template_command]]
    /\ UNCHANGED <<hook_vars, job_vars, namespace_jobs, jobs_yml>>

\* active_tasks = self.active_task_names()
K8sPollActive(r) ==
    /\ k8s_calls[r].pc = "wait_active"
    /\ Polls(k8s_calls[r].log) < MaxPolls
    /\ LET active_tasks == ActiveTaskNames(namespace_jobs)
       IN  k8s_calls' = [k8s_calls EXCEPT ![r] =
               [@ EXCEPT !.pc = AfterActivePoll(active_tasks),
                         !.log = Append(@, Op("active_task_names", active_tasks))]]
    /\ UNCHANGED <<hook_vars, job_vars, namespace_jobs, jobs_yml>>

\* sleep(5) in the loop "Wait until all other tasks are completed"
K8sSleepActive(r) ==
    /\ k8s_calls[r].pc = "sleep_active"
    /\ k8s_calls' = [k8s_calls EXCEPT ![r] =
           [@ EXCEPT !.pc = "wait_active",
                     !.log = Append(@, Op("sleep", PollInterval))]]
    /\ UNCHANGED <<hook_vars, job_vars, namespace_jobs, jobs_yml>>

\* The task is configured and saved to k8s/jobs.yml
K8sWriteTask(r) ==
    /\ k8s_calls[r].pc = "configure"
    /\ LET task == PatchedTask(k8s_calls[r].task_name,
                               k8s_calls[r].template_command,
                               k8s_calls[r].command)
       IN  /\ jobs_yml' = Some(task)
           /\ k8s_calls' = [k8s_calls EXCEPT ![r] =
                  [@ EXCEPT !.pc = "apply",
                            !.log = Append(@, Op("write", task))]]
    /\ UNCHANGED <<hook_vars, job_vars, namespace_jobs>>

\* An apply that is refused while the namespace lists an active job
K8sApplyAtomic(r) ==
    /\ k8s_calls[r].pc = "apply"
    /\ ActiveTaskNames(namespace_jobs) = {}
    /\ namespace_jobs' = KubectlApply(namespace_jobs, jobs_yml, k8s_calls[r].task_name)
    /\ k8s_calls' = [k8s_calls EXCEPT ![r] =
           [@ EXCEPT !.pc = "completion",
                     !.log = Append(@, Op("kubectl_apply", k8s_calls[r].task_name))]]
    /\ UNCHANGED <<hook_vars, job_vars, jobs_yml>>

\* kubectl_apply(self.root, "--selector", f"app.kubernetes.io/name={task_name}")
K8sApply(r) ==
    /\ k8s_calls[r].pc = "apply"
    /\ namespace_jobs' = KubectlApply(namespace_jobs, jobs_yml, k8s_calls[r].task_name)
    /\ k8s_calls' = [k8s_calls EXCEPT ![r] =
           [@ EXCEPT !.pc = "completion",
                     !.log = Append(@, Op("kubectl_apply", k8s_calls[r].task_name))]]
    /\ UNCHANGED <<hook_vars, job_vars, jobs_yml>>

\* One turn of the loop "Wait for completion", up to its sleep
K8sPollStatus(r) ==
    /\ k8s_calls[r].pc = "completion"
    /\ Polls(k8s_calls[r].log) < MaxPolls
    /\ LET items == NamespacedTasks(namespace_jobs, k8s_calls[r].task_name)
           pc == AfterStatusPoll(items)
       IN  k8s_calls' = [k8s_calls EXCEPT ![r] =
               [@ EXCEPT !.pc = pc,
                         !.log = Append(@, Op("list_namespaced_job", items)),
                         !.outcome = IF pc = "returned" THEN Returned
                                     ELSE IF pc = "raised"
                                     THEN Raised(k8s_calls[r].task_name)
                                     ELSE @]]
    /\ UNCHANGED <<hook_vars, job_vars, namespace_jobs, jobs_yml>>

\* sleep(5) in the loop "Wait for completion"
K8sSleepCompletion(r) ==
    /\ k8s_calls[r].pc = "sleep_completion"
    /\ k8s_calls' = [k8s_calls EXCEPT ![r] =
           [@ EXCEPT !.pc = "completion",
                     !.log = Append(@, Op("sleep", PollInterval))]]
    /\ UNCHANGED <<hook_vars, job_vars, namespace_jobs, jobs_yml>>

\* The cluster: a job of the namespace is listed with a new status.
ClusterUpdates(i, status) ==
    /\ i \in DOMAIN namespace_jobs
    /\ namespace_jobs[i].name = OtherJob => status \in OtherJobStatuses
    /\ namespace_jobs[i] /= NamespaceJob(namespace_jobs[i].name, TRUE, status)
    /\ namespace_jobs' = [namespace_jobs EXCEPT ![i] =
           NamespaceJob(@.name, TRUE, status)]
    /\ UNCHANGED <<hook_vars, job_vars, k8s_calls, jobs_yml>>

K8sServices == {"lms"}

K8sInit ==
    /\ hooks_module = "hooks.py"
    /\ registrations_by_hook = [name \in HookNames |-> <<>>]
    /\ current_contexts = <<>>
    /\ actions = [name \in ActionNames |-> <<>>]
    /\ filters = [name \in FilterNames |-> <<>>]
    /\ CURRENT = <<>>
    /\ next_id = 1
    /\ last = NoCall
    /\ with_blocks = <<>>
    /\ loading = NoLoading
    /\ run = NoRun
    /\ job_frames = <<>>
    /\ handed = <<>>
    /\ k8s_calls = <<IdleCall>>
    /\ namespace_jobs \in {<<NamespaceJob(OtherJob, TRUE, status)>> :
                              status \in OtherJobStatuses}
    /\ jobs_yml = None

K8sNext ==
    \/ \E r \in DOMAIN k8s_calls, service \in K8sServices,
              template_command \in TemplateCommands :
           K8sRunTask(r, service, template_command)
    \/ \E r \in DOMAIN k8s_calls : K8sPollActive(r)
    \/ \E r \in DOMAIN k8s_calls : K8sSleepActive(r)
    \/ \E r \in DOMAIN k8s_calls : K8sWriteTask(r)
    \/ \E r \in DOMAIN k8s_calls : K8sApply(r)
    \/ \E r \in DOMAIN k8s_calls : K8sPollStatus(r)
    \/ \E r \in DOMAIN k8s_calls : K8sSleepCompletion(r)
    \/ \E i \in DOMAIN namespace_jobs, status \in JobStatuses :
           ClusterUpdates(i, status)

SpecK8s == K8sInit /\ [][K8sNext]_vars

\* A step of run_task: the thread of the call is never stopped for ever, its
\* sleeps and its calls to the cluster return.
K8sStep ==
    \E r \in DOMAIN k8s_calls :
        \/ K8sPollActive(r)
        \/ K8sSleepActive(r)
        \/ K8sWriteTask(r)
        \/ K8sApply(r)
        \/ K8sPollStatus(r)
        \/ K8sSleepCompletion(r)

\* run_task on a thread that keeps running; nothing is assumed of the cluster.
SpecK8sLive == K8sInit /\ [][K8sNext]_vars /\ WF_vars(K8sStep)

\* Two independent invocations of run_task against the same namespace and the
\* same k8s/jobs.yml
RaceInit ==
    /\ hooks_module = "hooks.py"
    /\ registrations_by_hook = [name \in HookNames |-> <<>>]
    /\ current_contexts = <<>>
    /\ actions = [name \in ActionNames |-> <<>>]
    /\ filters = [name \in FilterNames |-> <<>>]
    /\ CURRENT = <<>>
    /\ next_id = 1
    /\ last = NoCall
    /\ with_blocks = <<>>
    /\ loading = NoLoading
    /\ run = NoRun
    /\ job_frames = <<>>
    /\ handed = <<>>
    /\ k8s_calls = <<IdleCall, IdleCall>>
    /\ namespace_jobs \in {<<NamespaceJob(OtherJob, TRUE, status)>> :
                              status \in OtherJobStatuses}
    /\ jobs_yml = None

\* The steps of the two invocations, each of a task of lms whose template has
\* no command, and of a cluster that lists a job as active or as succeeded
RaceNext ==
    \/ \E r \in DOMAIN k8s_calls : K8sRunTask(r, "lms", None)
    \/ \E r \in DOMAIN k8s_calls : K8sPollActive(r)
    \/ \E r \in DOMAIN k8s_calls : K8sSleepActive(r)
    \/ \E r \in DOMAIN k8s_calls : K8sWriteTask(r)
    \/ \E r \in DOMAIN k8s_calls : K8sApply(r)
    \/ \E r \in DOMAIN k8s_calls : K8sPollStatus(r)
    \/ \E r \in DOMAIN k8s_calls : K8sSleepCompletion(r)
    \/ \E i \in DOMAIN namespace_jobs, status \in OtherJobStatuses :
           ClusterUpdates(i, status)

SpecRace == RaceInit /\ [][RaceNext]_vars

----------------------------------------------------------------------------
(* Specification of the hooks: one of the two tutor.hooks modules is imported *)

Init ==
    /\ hooks_module \in {"hooks.py", "hooks/"}
    /\ registrations_by_hook = [name \in HookNames |-> <<>>]
    /\ current_contexts = <<>>
    /\ actions = [name \in ActionNames |-> <<>>]
    /\ filters = [name \in FilterNames |-> <<>>]
    /\ CURRENT = <<>>
    /\ next_id = 1
    /\ last = NoCall
    /\ with_blocks = <<>>
    /\ loading = NoLoading
    /\ run = NoRun
    /\ job_frames = <<>>
    /\ handed = <<>>
    /\ k8s_calls = <<>>
    /\ namespace_jobs = <<>>
    /\ jobs_yml = None

EnterNames == {<<>>} \cup {<<c>> : c \in ContextNames}

RegistryNext ==
    \/ \E w \in OptContexts, name \in ActionNames, p \in HandlePriorities :
           Handle(w, name, p)
    \/ \E w \in OptContexts, name \in FilterNames : AddItem(w, name)
    \/ \E name \in ActionNames, c \in OptContexts : Fire(name, c)
    \/ \E name \in FilterNames, c \in OptContexts : Apply(name, c)
    \/ \E name \in HookNames, c \in OptContexts : Clear(name, c)
    \/ \E c \in OptContexts : ClearAll(c)

LegacyNext ==
    \/ \E names \in EnterNames, name \in ActionNames, p \in OnPriorities :
           LegacyOn(names, name, p)
    \/ \E names \in EnterNames, name \in FilterNames : LegacyAddItem(names, name)
    \/ \E name \in ActionNames, c \in OptContexts : LegacyDo(name, c)
    \/ \E name \in FilterNames, c \in OptContexts : LegacyApply(name, c)
    \/ \E name \in ActionNames, c \in OptContexts : LegacyActionsClear(name, c)
    \/ \E c \in OptContexts : LegacyActionsClearAll(c)
    \/ \E name \in FilterNames, c \in OptContexts : LegacyFiltersClear(name, c)
    \/ \E c \in OptContexts : LegacyFiltersClearAll(c)

Next == RegistryNext \/ LegacyNext

Spec == Init /\ [][Next]_vars

----------------------------------------------------------------------------
(* Specification of the calls in which a callback raises *)

RaiseNext ==
    \/ \E w \in OptContexts, name \in ActionNames, p \in HandlePriorities :
           Handle(w, name, p)
    \/ \E w \in OptContexts, name \in FilterNames : AddItem(w, name)
    \/ \E name \in ActionNames, c \in OptContexts, raiser \in 1..MaxRegs :
           FireRaising(name, c, raiser)
    \/ \E name \in FilterNames, c \in OptContexts, raiser \in 1..MaxRegs :
           ApplyRaising(name, c, raiser)
    \/ \E names \in EnterNames, name \in ActionNames, p \in OnPriorities :
           LegacyOn(names, name, p)
    \/ \E names \in EnterNames, name \in FilterNames : LegacyAddItem(names, name)
    \/ \E name \in ActionNames, c \in OptContexts, raiser \in 1..MaxRegs :
           LegacyDoRaising(name, c, raiser)
    \/ \E name \in FilterNames, c \in OptContexts, raiser \in 1..MaxRegs :
           LegacyApplyRaising(name, c, raiser)

SpecRaise == Init /\ [][RaiseNext]_vars

----------------------------------------------------------------------------
(* commands/compose.py: ComposeJobRunner *)

\* The command lines given to docker_compose by the commands of the CLI
ComposeCommands ==
    {<<"up", "--remove-orphans", "-d">>, <<"start", "lms">>, <<"restart", "lms">>,
     <<"stop">>, <<"logs", "lms">>}

\* The texts of the commands of jobs
JobCommandTexts == {"sh /openedx/tasks/init", "echo start", "up"}

\* "start" in command or "up" in command or "restart" in command: command is
\* the tuple of the arguments, and `in` looks for an argument equal to the word.
StartsProject(command) ==
    \E i \in DOMAIN command : command[i] \in {"start", "up", "restart"}

\* job_service_name = f"{service}-job"
JobServiceName(service) ==
    CASE service = "lms" -> "lms-job"
      [] service = "cms" -> "cms-job"
      [] service = "mysql" -> "mysql-job"

\* The arguments that run_job gives to docker_compose
RunCommand(service, command, is_a_tty) ==
    <<"-f", "local/docker-compose.jobs.yml", "run", "--rm">>
        \o (IF is_a_tty THEN <<>> ELSE <<"-T">>)
        \o <<JobServiceName(service), "sh", "-e", "-c", command>>

\* The subcommand of docker-compose in a command line: its first argument that
\* is not an option -f with its file
Subcommand(command) ==
    IF command[1] = "-f" THEN command[3] ELSE command[1]

\* ComposeJobRunner.docker_compose(*command): COMPOSE_PROJECT_STARTED is done
\* or not, then docker-compose is run.
DockerComposeCall(via, command) ==
    [via |-> via, command |-> command, started |-> StartsProject(command)]

\* A command of the CLI calls docker_compose.
DockerCompose(command) ==
    /\ Len(last.result) < MaxCalls
    /\ last' = [op |-> "docker_compose", name |-> "", context |-> None,
                result |-> Append(last.result, DockerComposeCall("cli", command))]
    /\ UNCHANGED <<beyond_hooks, hooks_module, registry_vars, next_id, legacy_vars>>

\* ComposeJobRunner.run_job(service, command)
ComposeRunJob(service, command, is_a_tty) ==
    /\ Len(last.result) < MaxCalls
    /\ last' = [op |-> "docker_compose", name |-> "", context |-> None,
                result |-> Append(last.result,
                                  DockerComposeCall("run_job",
                                      RunCommand(service, command, is_a_tty)))]
    /\ UNCHANGED <<beyond_hooks, hooks_module, registry_vars, next_id, legacy_vars>>

ComposeInit == Init /\ hooks_module = "hooks/"

ComposeNext ==
    \/ \E command \in ComposeCommands : DockerCompose(command)
    \/ \E service \in K8sServices, command \in JobCommandTexts, is_a_tty \in BOOLEAN :
           ComposeRunJob(service, command, is_a_tty)

SpecCompose == ComposeInit /\ [][ComposeNext]_vars

----------------------------------------------------------------------------
(* Specification of Action.fire with callbacks that register callbacks *)

\* The priorities given to handle by the caller of a callback and by a callback
FirePriorities == {None, Some(EARLY), Some(DEFAULT)}

\* A callback of an action: when registers is TRUE, its first call in a fire
\* registers a new callback on the same action with the priority it holds.
ActionCallback(id, registers, priority) ==
    [id |-> id, items |-> <<id>>, registers |-> registers, priority |-> priority]

\* Action.handle(priority=...)(callback), outside any fire
HandleCallback(name, priority, registers, inner_priority) ==
    /\ last.op /= "firing"
    /\ next_id <= MaxRegs
    /\ registers \/ inner_priority = None
    /\ registrations_by_hook' =
           [registrations_by_hook EXCEPT ![name] =
               RegistryRegister(@, current_contexts,
                                ActionCallback(next_id, registers, inner_priority),
                                priority)]
    /\ next_id' = next_id + 1
    /\ last' = NoCall
    /\ UNCHANGED <<beyond_hooks, hooks_module, current_contexts, legacy_vars>>

\* Action.fire(): the for loop starts on the generator _REGISTRY.get(name, None),
\* which iterates the list registrations_by_hook[name] itself.
FireStarts(name) ==
    /\ last.op /= "firing"
    /\ last' = [op |-> "firing", name |-> name, context |-> None,
                position |-> 0,
                registered |-> [i \in DOMAIN registrations_by_hook[name] |->
                                   registrations_by_hook[name][i].callback.id],
                result |-> <<>>]
    /\ UNCHANGED <<beyond_hooks, hooks_module, registry_vars, next_id, legacy_vars>>

\* One turn of the for loop: the list iterator yields the registration at its
\* position in the list as the list is now, and the callback is called; a
\* callback that registers calls handle, which inserts into that same list.
FireCalls ==
    /\ last.op = "firing"
    /\ last.position < Len(registrations_by_hook[last.name])
    /\ LET callback == registrations_by_hook[last.name][last.position + 1].callback
           first_call == callback.id \notin Range(last.result)
       IN  /\ last' = [last EXCEPT !.position = @ + 1,
                                   !.result = Append(@, callback.id)]
           /\ IF callback.registers /\ first_call /\ next_id <= MaxRegs
              THEN /\ registrations_by_hook' =
                          [registrations_by_hook EXCEPT ![last.name] =
                              RegistryRegister(@, current_contexts,
                                               ActionCallback(next_id, FALSE, None),
                                               callback.priority)]
                   /\ next_id' = next_id + 1
              ELSE UNCHANGED <<registrations_by_hook, next_id>>
    /\ UNCHANGED <<beyond_hooks, hooks_module, current_contexts, legacy_vars>>

\* The list iterator is at the end of the list: fire returns.
FireReturns ==
    /\ last.op = "firing"
    /\ last.position >= Len(registrations_by_hook[last.name])
    /\ last' = [last EXCEPT !.op = "fired"]
    /\ UNCHANGED <<beyond_hooks, hooks_module, registry_vars, next_id, legacy_vars>>

ReentrantInit == Init /\ hooks_module = "hooks.py"

ReentrantNext ==
    \/ \E name \in ActionNames, priority \in FirePriorities,
          registers \in BOOLEAN, inner_priority \in FirePriorities :
           HandleCallback(name, priority, registers, inner_priority)
    \/ \E name \in ActionNames : FireStarts(name)
    \/ FireCalls
    \/ FireReturns

SpecReentrant == ReentrantInit /\ [][ReentrantNext]_vars

----------------------------------------------------------------------------
(* Specification of the values of Filter.apply *)

\* The lists given to add_items by the callback of identity id: none, one or
\* two items of its own
ItemCounts == {0, 1, 2}

ItemsFor(id, count) == [k \in 1..count |-> 10 * id + k]

StartingValues == {<<>>, <<0>>}

\* Filter.add_items(items), possibly in a block "with enter_context"
AddItems(within, name, count) ==
    /\ hooks_module = "hooks.py"
    /\ next_id <= MaxRegs
    /\ registrations_by_hook' =
           [registrations_by_hook EXCEPT ![name] =
               RegistryRegister(@, StackWithin(current_contexts, within),
                                ItemsCallback(next_id, ItemsFor(next_id, count)), None)]
    /\ current_contexts' = StackAfter(current_contexts, within)
    /\ next_id' = next_id + 1
    /\ last' = NoCall
    /\ UNCHANGED <<beyond_hooks, hooks_module, legacy_vars>>

\* hooks.filters.add_items(name, items) in a block "with contexts.enter(*names)"
LegacyAddItems(names, name, count) ==
    /\ hooks_module = "hooks/"
    /\ next_id <= MaxRegs
    /\ filters' = [filters EXCEPT ![name] =
                      FiltersAdd(@, LegacyPush(CURRENT, names),
                                 ItemsCallback(next_id, ItemsFor(next_id, count)))]
    /\ CURRENT' = LegacyPop(LegacyPush(CURRENT, names), Len(names))
    /\ next_id' = next_id + 1
    /\ last' = NoCall
    /\ UNCHANGED <<beyond_hooks, hooks_module, registry_vars, actions>>

\* Filter.apply(starting_value, context=context)
ApplyTo(name, starting_value, context) ==
    /\ hooks_module = "hooks.py"
    /\ last' = [op |-> "apply", name |-> name, context |-> context,
                starting_value |-> starting_value,
                steps |-> ApplySteps(RegistryGet(registrations_by_hook[name], context),
                                     starting_value),
                result |-> FilterApply(registrations_by_hook, name,
                                       starting_value, context)]
    /\ UNCHANGED <<beyond_hooks, hooks_module, registry_vars, next_id, legacy_vars>>

\* hooks.filters.apply(name, starting_value, context=context)
LegacyApplyTo(name, starting_value, context) ==
    /\ hooks_module = "hooks/"
    /\ last' = [op |-> "apply", name |-> name, context |-> context,
                starting_value |-> starting_value,
                steps |-> ApplySteps(FuncsInContext(filters[name], context),
                                     starting_value),
                result |-> FiltersApply(filters[name], starting_value, context)]
    /\ UNCHANGED <<beyond_hooks, hooks_module, registry_vars, legacy_vars, next_id>>

ApplyNext ==
    \/ \E w \in OptContexts, name \in FilterNames, count \in ItemCounts :
           AddItems(w, name, count)
    \/ \E names \in EnterNames, name \in FilterNames, count \in ItemCounts :
           LegacyAddItems(names, name, count)
    \/ \E name \in FilterNames, value \in StartingValues, c \in OptContexts :
           ApplyTo(name, value, c)
    \/ \E name \in FilterNames, value \in StartingValues, c \in OptContexts :
           LegacyApplyTo(name, value, c)

SpecApply == Init /\ [][ApplyNext]_vars

----------------------------------------------------------------------------
(* commands/tasks.py and commands/do.py: the subcommands built from CLI_TASKS *)

CliFilterNames == {"CLI_TASKS", "COMMANDS_INIT", "COMMANDS_PRE_INIT"}

\* The names of tasks that plugins and the core register
CliTaskNames == {"init", "createuser", "importdemocourse"}

\* Every name a subcommand can have, as sorted() orders strings
AlphabeticalNames == <<"createuser", "importdemocourse", "init", "pre-init">>

HelpTexts == {"help 1", "help 2"}

\* An entry of CLI_TASKS: (name, helptext, service_commands)
CliTask(name, helptext) == <<name, helptext, <<>>>>

\* hooks.Filters.CLI_TASKS.add_items([(name, helptext, service_commands)])
DeclareCliTask(within, name, helptext) ==
    JobsAddItems(within, "CLI_TASKS", <<CliTask(name, helptext)>>)

\* tasks.py _get_cli_tasks(limit_to): the entries of CLI_TASKS, then an entry
\* of init and one of pre-init, with the empty helptext, for the legacy filters
GetCliTasks(registry, limit_to) ==
    LET limited_context == LimitedContext(limit_to)
    IN  FilterIterate(registry, "CLI_TASKS", limited_context)
        \o <<<<"init", "", FilterIterate(registry, "COMMANDS_INIT", limited_context)>>,
             <<"pre-init", "", FilterIterate(registry, "COMMANDS_PRE_INIT",
                                             limited_context)>>>>

\* name in task_name_helptext, the dict being the list of its items
HasName(task_name_helptext, name) ==
    \E i \in DOMAIN task_name_helptext : task_name_helptext[i][1] = name

\* A loop in which every entry replaces the helptext of its name
RECURSIVE TaskNameHelptextLastWins(_, _)
TaskNameHelptextLastWins(tasks, task_name_helptext) ==
    IF tasks = <<>> THEN task_name_helptext
    ELSE LET name == Head(tasks)[1]
             helptext == Head(tasks)[2]
         IN  TaskNameHelptextLastWins(
                 Tail(tasks),
                 IF HasName(task_name_helptext, name)
                 THEN [i \in DOMAIN task_name_helptext |->
                          IF task_name_helptext[i][1] = name
                          THEN <<name, helptext>> ELSE task_name_helptext[i]]
                 ELSE Append(task_name_helptext, <<name, helptext>>))

\* for name, helptext, _ in tasks:
\*     if name not in task_name_helptext: task_name_helptext[name] = helptext
RECURSIVE TaskNameHelptext(_, _)
TaskNameHelptext(tasks, task_name_helptext) ==
    IF tasks = <<>> THEN task_name_helptext
    ELSE LET name == Head(tasks)[1]
             helptext == Head(tasks)[2]
         IN  TaskNameHelptext(
                 Tail(tasks),
                 IF HasName(task_name_helptext, name)
                 THEN task_name_helptext
                 ELSE Append(task_name_helptext, <<name, helptext>>))

\* The items of the dict in the order they were inserted
UnsortedItems(task_name_helptext) == task_name_helptext

\* sorted(task_name_helptext.items()): the keys are distinct, so the items come
\* in the alphabetical order of the names
SortedItems(task_name_helptext) ==
    LET present == SelectSeq(AlphabeticalNames,
                             LAMBDA name : HasName(task_name_helptext, name))
    IN  [k \in DOMAIN present |->
            (CHOOSE item \in Range(task_name_helptext) : item[1] = present[k])]

\* The subcommands added to the group, in the order they are added
Subcommands(tasks) ==
    LET items == SortedItems(TaskNameHelptext(tasks, <<>>))
    IN  [k \in DOMAIN items |-> [name |-> items[k][1], help |-> items[k][2]]]

AddedSubcommands(source, subcommands) ==
    [op |-> "add subcommands", name |-> source, context |-> None,
     result |-> subcommands]

\* tasks.py add_tasks_as_subcommands(command_group)
AddTasksAsSubcommands ==
    /\ last' = AddedSubcommands("tasks.py",
                                Subcommands(GetCliTasks(registrations_by_hook, "")))
    /\ UNCHANGED <<hooks_module, registrations_by_hook, current_contexts,
                   legacy_vars, next_id, block_vars, job_vars, k8s_vars>>

\* do.py _add_tasks_to_do_command()
AddTasksToDoCommand ==
    /\ last' = AddedSubcommands("do.py",
                                Subcommands(FilterIterate(registrations_by_hook,
                                                          "CLI_TASKS", None)))
    /\ UNCHANGED <<hooks_module, registrations_by_hook, current_contexts,
                   legacy_vars, next_id, block_vars, job_vars, k8s_vars>>

CliInit ==
    /\ hooks_module = "hooks.py"
    /\ registrations_by_hook = [name \in CliFilterNames |-> <<>>]
    /\ current_contexts = <<>>
    /\ actions = [name \in ActionNames |-> <<>>]
    /\ filters = [name \in FilterNames |-> <<>>]
    /\ CURRENT = <<>>
    /\ next_id = 1
    /\ last = NoCall
    /\ with_blocks = <<>>
    /\ loading = NoLoading
    /\ run = NoRun
    /\ job_frames = <<>>
    /\ handed = <<>>
    /\ k8s_calls = <<>>
    /\ namespace_jobs = <<>>
    /\ jobs_yml = None

CliNext ==
    \/ \E name \in CliTaskNames, helptext \in HelpTexts :
           DeclareCliTask(None, name, helptext)
    \/ AddTasksAsSubcommands
    \/ AddTasksToDoCommand

SpecCli == CliInit /\ [][CliNext]_vars

----------------------------------------------------------------------------
(* plugins/__init__.py: load, disable and _load_plugins *)

PluginNames == {"discovery", "mfe"}

\* The names of the plugins as sorted() orders them
AlphabeticalPlugins == <<"discovery", "mfe">>

\* The iterables of names given to LOAD_PLUGINS
NameLists == {<<>>, <<"mfe">>, <<"mfe", "discovery">>, <<"mfe", "discovery", "mfe">>}

\* What the callbacks of LOAD_PLUGIN(name) do: they register the hooks of the
\* plugin, or one of them raises TutorError, or another exception
LoadOutcomes == {"loaded", "TutorError", "ValueError"}

\* names = sorted(set(names))
SortedNames(names) ==
    SelectSeq(AlphabeticalPlugins, LAMBDA name : name \in Range(names))

\* hooks.Contexts.PLUGINS.name
PLUGINS == "plugins"

\* A load that enters the context of the plugins only
PluginStackPluginsOnly(stack, name) == PushContext(stack, PLUGINS)

\* with hooks.Contexts.PLUGINS.enter(): with hooks.Contexts.APP(name).enter():
PluginStack(stack, name) == PushContext(PushContext(stack, PLUGINS), APP(name))

\* What load(name) raises: TutorError when the plugin is not installed,
\* otherwise what the callbacks of LOAD_PLUGIN(name) raise, if anything
LoadRaises(name, outcome) ==
    IF name \notin loading.installed THEN "TutorError"
    ELSE IF outcome = "loaded" THEN "none"
    ELSE outcome

\* load(name) as a record of the last call, with the registry before it
LoadCall(name, raised) ==
    [op |-> "load", name |-> name, raised |-> raised, before |-> registrations_by_hook]

\* The body of load(name): in the contexts of the plugin, the callbacks of
\* LOAD_PLUGIN(name) register a hook of the plugin; both blocks are left.
LoadBody(name, hook_name, outcome) ==
    IF LoadRaises(name, outcome) = "none"
    THEN /\ next_id <= MaxRegs
         /\ registrations_by_hook' =
                [registrations_by_hook EXCEPT ![hook_name] =
                    RegistryRegister(@, PluginStack(current_contexts, name),
                                     ItemsCallback(next_id, <<next_id>>), None)]
         /\ next_id' = next_id + 1
    ELSE UNCHANGED <<registrations_by_hook, next_id>>

\* plugins.load(name), called on its own
Load(name, hook_name, outcome) ==
    /\ loading.pc \in {"idle", "returned", "raised"}
    /\ LoadBody(name, hook_name, outcome)
    /\ last' = LoadCall(name, LoadRaises(name, outcome))
    /\ UNCHANGED <<hooks_module, current_contexts, legacy_vars, with_blocks, loading,
                   job_vars, k8s_vars>>

\* plugins.disable(plugin): hooks.clear_all(context=hooks.Contexts.APP(plugin).name)
Disable(plugin) ==
    /\ loading.pc \in {"idle", "returned", "raised"}
    /\ registrations_by_hook' =
           RegistryClearAll(registrations_by_hook, Some(APP(plugin)))
    /\ last' = [op |-> "disable", name |-> plugin,
                loaded_before |-> IF last.op = "load" /\ last.name = plugin
                                     /\ last.raised = "none"
                                  THEN Some(last.before) ELSE None]
    /\ UNCHANGED <<hooks_module, current_contexts, legacy_vars, next_id, block_vars,
                   job_vars, k8s_vars>>

\* An event of _load_plugins: a call of load(name) with what it raised, or the
\* firing of LOAD_PLUGINS_POST
LoadEvent(op, name, raised) == [op |-> op, name |-> name, raised |-> raised]

\* hooks.Actions.LOAD_PLUGINS.do(names): _load_plugins starts
LoadPlugins(names) ==
    /\ loading.pc = "idle"
    /\ loading' = [loading EXCEPT !.pc = "loop", !.given = names,
                                   !.names = SortedNames(names)]
    /\ last' = NoCall
    /\ UNCHANGED <<hooks_module, registry_vars, legacy_vars, next_id, with_blocks,
                   job_vars, k8s_vars>>

\* One turn of the loop: try: load(name); except exceptions.TutorError: echo.
\* Any other exception leaves the loop and _load_plugins.
LoadNext(hook_name, outcome) ==
    /\ loading.pc = "loop"
    /\ loading.position <= Len(loading.names)
    /\ LET name == loading.names[loading.position]
           raised == LoadRaises(name, outcome)
       IN  /\ LoadBody(name, hook_name, outcome)
           /\ last' = LoadCall(name, raised)
           /\ loading' =
                  [loading EXCEPT
                      !.events = Append(@, LoadEvent("load", name, raised)),
                      !.position = @ + 1,
                      !.pc = IF raised \in {"none", "TutorError"}
                             THEN "loop" ELSE "raised"]
    /\ UNCHANGED <<hooks_module, current_contexts, legacy_vars, with_blocks,
                   job_vars, k8s_vars>>

\* hooks.Filters.ENV_PATCHES
ENV_PATCHES == "env:patches"

\* hooks.Filters.ENV_PATCH(patch_name): Filter(f"env:patches:{patch_name}")
ENV_PATCH(patch_name) ==
    CASE patch_name = "caddyfile" -> "env:patches:caddyfile"

\* The patches that ENV_PATCHES.iterate() yields; none when nothing was ever
\* registered for that filter
EnvPatches(registry) ==
    IF ENV_PATCHES \in DOMAIN registry
    THEN FilterIterate(registry, ENV_PATCHES, None)
    ELSE <<>>

\* _convert_plugin_patches: for name, content in patches:
\*     hooks.Filters.ENV_PATCH(name).add_item(content)
\* in the contexts that are current when LOAD_PLUGINS_POST is done.
RECURSIVE Converted(_, _, _, _)
Converted(registry, patches, stack, id) ==
    IF patches = <<>> THEN registry
    ELSE Converted(
             [registry EXCEPT ![ENV_PATCH(patches[1][1])] =
                 RegistryRegister(@, stack, ItemsCallback(id, <<patches[1][2]>>), None)],
             Tail(patches), stack, id + 1)

\* The loop is over: hooks.Actions.LOAD_PLUGINS_POST.do(), whose callback
\* _convert_plugin_patches registers every patch of ENV_PATCHES with the filter
\* ENV_PATCH of its name.
FireLoadPluginsPost ==
    /\ loading.pc = "loop"
    /\ loading.position > Len(loading.names)
    /\ loading' = [loading EXCEPT
                      !.events = Append(@, LoadEvent("LOAD_PLUGINS_POST", "", "none")),
                      !.pc = "returned"]
    /\ LET patches == EnvPatches(registrations_by_hook)
       IN  /\ registrations_by_hook' =
                  Converted(registrations_by_hook, patches, current_contexts, next_id)
           /\ next_id' = next_id + Len(patches)
    /\ last' = NoCall
    /\ UNCHANGED <<hooks_module, current_contexts, legacy_vars, with_blocks,
                   job_vars, k8s_vars>>

PluginsInit ==
    /\ hooks_module = "hooks.py"
    /\ registrations_by_hook = [name \in HookNames |-> <<>>]
    /\ current_contexts = <<>>
    /\ actions = [name \in ActionNames |-> <<>>]
    /\ filters = [name \in FilterNames |-> <<>>]
    /\ CURRENT = <<>>
    /\ next_id = 1
    /\ last = NoCall
    /\ with_blocks = <<>>
    /\ loading \in {[NoLoading EXCEPT !.installed = installed] :
                        installed \in SUBSET PluginNames}
    /\ run = NoRun
    /\ job_frames = <<>>
    /\ handed = <<>>
    /\ k8s_calls = <<>>
    /\ namespace_jobs = <<>>
    /\ jobs_yml = None

PluginsNext ==
    \/ \E w \in OptContexts, name \in FilterNames :
           loading.pc /= "loop" /\ AddItem(w, name)
    \/ \E name \in PluginNames, hook_name \in HookNames, outcome \in LoadOutcomes :
           Load(name, hook_name, outcome)
    \/ \E plugin \in PluginNames : Disable(plugin)
    \/ \E names \in NameLists : LoadPlugins(names)
    \/ \E hook_name \in HookNames, outcome \in LoadOutcomes :
           LoadNext(hook_name, outcome)
    \/ FireLoadPluginsPost

SpecPlugins == PluginsInit /\ [][PluginsNext]_vars

----------------------------------------------------------------------------
(* plugins/__init__.py: the patches of the plugins *)

PatchFilterNames == {ENV_PATCHES, ENV_PATCH("caddyfile")}

\* The two ways a plugin declares a patch: an item of ENV_PATCH(name), or a
\* pair (name, content) of ENV_PATCHES
PatchDeclarations == {"ENV_PATCH", "ENV_PATCHES"}

\* The content of a patch, which tells the plugin that declared it and how
PatchContent(plugin, id, declared) ==
    [plugin |-> plugin, id |-> id, declared |-> declared]

\* One turn of the loop of _load_plugins for a plugin whose LOAD_PLUGIN callback
\* declares one patch of the Caddyfile.
LoadNextPatch(declared) ==
    /\ loading.pc = "loop"
    /\ loading.position <= Len(loading.names)
    /\ LET name == loading.names[loading.position]
           raised == LoadRaises(name, "loaded")
           content == PatchContent(name, next_id, declared)
       IN  /\ IF raised = "none"
              THEN /\ next_id <= MaxRegs
                   /\ registrations_by_hook' =
                          IF declared = "ENV_PATCH"
                          THEN [registrations_by_hook EXCEPT ![ENV_PATCH("caddyfile")] =
                                   RegistryRegister(@, PluginStack(current_contexts, name),
                                                    ItemsCallback(next_id, <<content>>),
                                                    None)]
                          ELSE [registrations_by_hook EXCEPT ![ENV_PATCHES] =
                                   RegistryRegister(@, PluginStack(current_contexts, name),
                                                    ItemsCallback(next_id,
                                                        <<<<"caddyfile", content>>>>),
                                                    None)]
                   /\ next_id' = next_id + 1
              ELSE UNCHANGED <<registrations_by_hook, next_id>>
           /\ last' = LoadCall(name, raised)
           /\ loading' =
                  [loading EXCEPT
                      !.events = Append(@, LoadEvent("load", name, raised)),
                      !.position = @ + 1]
    /\ UNCHANGED <<hooks_module, current_contexts, legacy_vars, with_blocks,
                   job_vars, k8s_vars>>

\* iter_patches(name): yield from hooks.Filters.ENV_PATCH(name).iterate()
IterPatches(registry, name) == FilterIterate(registry, ENV_PATCH(name), None)

PatchesInit ==
    /\ hooks_module = "hooks.py"
    /\ registrations_by_hook = [name \in PatchFilterNames |-> <<>>]
    /\ current_contexts = <<>>
    /\ actions = [name \in ActionNames |-> <<>>]
    /\ filters = [name \in FilterNames |-> <<>>]
    /\ CURRENT = <<>>
    /\ next_id = 1
    /\ last = NoCall
    /\ with_blocks = <<>>
    /\ loading \in {[NoLoading EXCEPT !.installed = installed] :
                        installed \in SUBSET PluginNames}
    /\ run = NoRun
    /\ job_frames = <<>>
    /\ handed = <<>>
    /\ k8s_calls = <<>>
    /\ namespace_jobs = <<>>
    /\ jobs_yml = None

PatchesNext ==
    \/ \E names \in NameLists : LoadPlugins(names)
    \/ \E declared \in PatchDeclarations : LoadNextPatch(declared)
    \/ FireLoadPluginsPost
    \/ \E plugin \in PluginNames : Disable(plugin)

SpecPatches == PatchesInit /\ [][PatchesNext]_vars

----------------------------------------------------------------------------
(* Specification of the context stack: the blocks "with enter_context(...)" *)
(* are entered and left step by step, and may be nested                     *)

\* A block in progress: the names its enter pushed and, as history, the stack
\* just before its enter
WithBlock(names, before) == [names |-> names, before |-> before]

\* The names given to one call of contexts.enter(*names)
NestedNames == {<<"ctx1">>, <<"ctx1", "ctx2">>}

\* The block left last, how it was left and the stack before it and after it
ExitedBlock(block, raised, after) ==
    [op |-> "exit", raised |-> raised, names |-> block.names,
     before |-> block.before, after |-> after]

\* enter_context(context): self.current_contexts.append(context); yield
EnterContext(context) ==
    /\ hooks_module = "hooks.py"
    /\ Len(with_blocks) < MaxDepth
    /\ current_contexts' = PushContext(current_contexts, context)
    /\ with_blocks' = Append(with_blocks, WithBlock(<<context>>, current_contexts))
    /\ last' = NoCall
    /\ UNCHANGED <<hooks_module, registrations_by_hook, legacy_vars, next_id,
                   job_vars, k8s_vars, loading>>

\* Variant: leaving a block also takes its context off the registrations.
ExitContextUntagging(raised) ==
    /\ hooks_module = "hooks.py"
    /\ with_blocks /= <<>>
    /\ current_contexts' = PopContext(current_contexts)
    /\ with_blocks' = SubSeq(with_blocks, 1, Len(with_blocks) - 1)
    /\ last' = ExitedBlock(with_blocks[Len(with_blocks)], raised, current_contexts')
    /\ registrations_by_hook' =
           [name \in DOMAIN registrations_by_hook |->
               [i \in DOMAIN registrations_by_hook[name] |->
                   [registrations_by_hook[name][i] EXCEPT
                       !.contexts = @ \ Range(with_blocks[Len(with_blocks)].names)]]]
    /\ UNCHANGED <<hooks_module, legacy_vars, next_id, job_vars, k8s_vars, loading>>

\* The body of the innermost block ends, by its last statement or by an
\* exception (raised): finally: self.current_contexts.pop()
ExitContext(raised) ==
    /\ hooks_module = "hooks.py"
    /\ with_blocks /= <<>>
    /\ current_contexts' = PopContext(current_contexts)
    /\ with_blocks' = SubSeq(with_blocks, 1, Len(with_blocks) - 1)
    /\ last' = ExitedBlock(with_blocks[Len(with_blocks)], raised, current_contexts')
    /\ UNCHANGED <<hooks_module, registrations_by_hook, legacy_vars, next_id,
                   job_vars, k8s_vars, loading>>

\* Filter.add_item(item) in the body of the blocks in progress
RegisterInContext(name) ==
    /\ hooks_module = "hooks.py"
    /\ next_id <= MaxTagged
    /\ registrations_by_hook' =
           [registrations_by_hook EXCEPT ![name] =
               RegistryRegister(@, current_contexts,
                                ItemsCallback(next_id, <<next_id>>), None)]
    /\ next_id' = next_id + 1
    /\ last' = NoCall
    /\ UNCHANGED <<hooks_module, current_contexts, legacy_vars, with_blocks,
                   job_vars, k8s_vars, loading>>

\* contexts.enter(*names): for name in names: cls.CURRENT.append(name); yield
LegacyEnter(names) ==
    /\ hooks_module = "hooks/"
    /\ Len(with_blocks) < MaxDepth
    /\ CURRENT' = LegacyPush(CURRENT, names)
    /\ with_blocks' = Append(with_blocks, WithBlock(names, CURRENT))
    /\ last' = NoCall
    /\ UNCHANGED <<hooks_module, registry_vars, actions, filters, next_id,
                   job_vars, k8s_vars, loading>>

\* The body of the innermost block ends, by its last statement or by an
\* exception (raised): finally: for _ in range(len(names)): cls.CURRENT.pop()
LegacyExit(raised) ==
    /\ hooks_module = "hooks/"
    /\ with_blocks /= <<>>
    /\ CURRENT' = LegacyPop(CURRENT, Len(with_blocks[Len(with_blocks)].names))
    /\ with_blocks' = SubSeq(with_blocks, 1, Len(with_blocks) - 1)
    /\ last' = ExitedBlock(with_blocks[Len(with_blocks)], raised, CURRENT')
    /\ UNCHANGED <<hooks_module, registry_vars, actions, filters, next_id,
                   job_vars, k8s_vars, loading>>

\* hooks.filters.add_item(name, item) in the body of the blocks in progress
LegacyRegisterInContext(name) ==
    /\ hooks_module = "hooks/"
    /\ next_id <= MaxTagged
    /\ filters' = [filters EXCEPT ![name] =
                      FiltersAdd(@, CURRENT, ItemsCallback(next_id, <<next_id>>))]
    /\ next_id' = next_id + 1
    /\ last' = NoCall
    /\ UNCHANGED <<hooks_module, registry_vars, actions, CURRENT, with_blocks,
                   job_vars, k8s_vars, loading>>

ContextsNext ==
    \/ \E context \in ContextNames : EnterContext(context)
    \/ \E raised \in BOOLEAN : ExitContext(raised)
    \/ \E name \in FilterNames : RegisterInContext(name)
    \/ \E name \in FilterNames, c \in OptContexts : Apply(name, c)
    \/ \E name \in FilterNames, c \in OptContexts : Clear(name, c)
    \/ \E names \in NestedNames : LegacyEnter(names)
    \/ \E raised \in BOOLEAN : LegacyExit(raised)
    \/ \E name \in FilterNames : LegacyRegisterInContext(name)
    \/ \E name \in FilterNames, c \in OptContexts : LegacyApply(name, c)
    \/ \E name \in FilterNames, c \in OptContexts : LegacyFiltersClear(name, c)

SpecContexts == Init /\ [][ContextsNext]_vars

----------------------------------------------------------------------------
(* Views of the two implementations used by the properties below *)

\* The registrations of a hook as records of callback identity, priority and
\* scopes, in list order.  Filters of the hooks/ package carry no priority.
RegistryEntries(registrations) ==
    [i \in DOMAIN registrations |->
        [id |-> registrations[i].callback.id,
         priority |-> registrations[i].priority,
         scopes |-> registrations[i].contexts]]

ActionEntries(named_actions) ==
    [i \in DOMAIN named_actions |->
        [id |-> named_actions[i].func.id,
         priority |-> named_actions[i].priority,
         scopes |-> Range(named_actions[i].contexts)]]

FilterEntries(named_filters) ==
    [i \in DOMAIN named_filters |->
        [id |-> named_filters[i].func.id,
         priority |-> 0,
         scopes |-> Range(named_filters[i].contexts)]]

EntriesIn(registry, named_actions, named_filters, name) ==
    IF hooks_module = "hooks.py" THEN RegistryEntries(registry[name])
    ELSE IF name \in ActionNames THEN ActionEntries(named_actions[name])
    ELSE FilterEntries(named_filters[name])

Entries(name) == EntriesIn(registrations_by_hook, actions, filters, name)

Ids(entries) == {entries[i].id : i \in DOMAIN entries}

PositionOf(entries, id) == CHOOSE i \in DOMAIN entries : entries[i].id = id

\* e1 comes before e2: lower priority, or the same priority and registered earlier.
Before(e1, e2) ==
    \/ e1.priority < e2.priority
    \/ e1.priority = e2.priority /\ e1.id < e2.id

IsCall == last.op \in {"fire", "apply", "do"}

----------------------------------------------------------------------------
(* C1 *)

----------------------------------------------------------------------------
(* C2 *)

\* C2: fire / apply with a scope S visits exactly the registrations of the hook
\* whose scope set contains S, without a scope all of them, each once and in
\* list order; a registration outside S contributes nothing to the value.
C2_ScopeSelection ==
    IsCall =>
        LET entries == Entries(last.name)
            selected == {e \in Range(entries) :
                            last.context = None \/ last.context[1] \in e.scopes}
        IN  /\ Range(last.result) = {e.id : e \in selected}
            /\ Len(last.result) = Cardinality(selected)
            /\ \A i, j \in DOMAIN last.result :
                   i < j => PositionOf(entries, last.result[i])
                                < PositionOf(entries, last.result[j])

\* The item 1 was added under ctx1, the item 2 without a scope, and
\* apply(scope = ctx1) gave [1].
C2_Witness ==
    /\ hooks_module = "hooks.py"
    /\ Len(registrations_by_hook["test:sheeps"]) = 2
    /\ registrations_by_hook["test:sheeps"][1].callback.items = <<1>>
    /\ registrations_by_hook["test:sheeps"][1].contexts = {"ctx1"}
    /\ registrations_by_hook["test:sheeps"][2].callback.items = <<2>>
    /\ registrations_by_hook["test:sheeps"][2].contexts = {}
    /\ last.op = "apply"
    /\ last.context = Some("ctx1")
    /\ last.result = <<1>>

----------------------------------------------------------------------------
(* C3 *)

\* after holds, in their order, exactly the registrations of before that are not
\* tagged with scope.
RemovedExactly(before, after, scope) ==
    /\ Range(after) = {e \in Range(before) : scope \notin e.scopes}
    /\ Len(after) = Cardinality(Range(after))
    /\ \A i, j \in DOMAIN after :
           i < j => PositionOf(before, after[i].id) < PositionOf(before, after[j].id)

\* What apply / fire / do without scope visits in the given state of the hooks.
VisitedIn(registry, named_actions, named_filters, name) ==
    IF hooks_module = "hooks.py"
    THEN IF name \in ActionNames THEN ActionFire(registry, name, None)
         ELSE FilterApply(registry, name, <<>>, None)
    ELSE IF name \in ActionNames THEN ActionsDo(named_actions[name], None)
         ELSE FiltersApply(named_filters[name], <<>>, None)

\* The state of the hooks after a clear or clear_all satisfies the claim.
ClearedExactly(registry, named_actions, named_filters, names, scope) ==
    \A name \in names :
        LET after == EntriesIn(registry, named_actions, named_filters, name)
            visited == VisitedIn(registry, named_actions, named_filters, name)
        IN  /\ RemovedExactly(Entries(name), after, scope)
            /\ visited = [i \in DOMAIN after |-> after[i].id]

\* C3: clear(name, scope = S) and clear_all(scope = S) remove exactly the
\* registrations tagged with S; all others (the unscoped ones included) remain
\* in their previous relative order, and a later apply / fire visits exactly the
\* remaining ones.  Stated of the result of the operation in every reachable state.
C3_ClearByScope ==
    \A scope \in ContextNames :
        /\ \A name \in HookNames :
               ClearedExactly(RegistryClear(registrations_by_hook, name, Some(scope)),
                              ContextualizedClear(actions, name, Some(scope)),
                              ContextualizedClear(filters, name, Some(scope)),
                              {name}, scope)
        /\ ClearedExactly(RegistryClearAll(registrations_by_hook, Some(scope)),
                          ContextualizedClearAll(actions, Some(scope)),
                          ContextualizedClearAll(filters, Some(scope)),
                          HookNames, scope)

\* The second of three callbacks of one hook was removed by a clear that left the
\* first, unscoped one in place, and a later apply returned the two that remain.
C3_Witness ==
    /\ hooks_module = "hooks.py"
    /\ next_id = 4
    /\ Len(registrations_by_hook["test:sheeps"]) = 2
    /\ registrations_by_hook["test:sheeps"][1].callback.id = 1
    /\ registrations_by_hook["test:sheeps"][1].contexts = {}
    /\ registrations_by_hook["test:sheeps"][2].callback.id = 3
    /\ last.op = "apply"
    /\ last.context = None
    /\ last.result = <<1, 3>>

----------------------------------------------------------------------------
(* Claims about run_job *)

\* The prerequisite edges (name, prereq_name) that run_job sees
PrereqEdges == Range(FilterIterate(registrations_by_hook, "JOB_PREREQS", None))

RECURSIVE ReachableJobs(_, _)
ReachableJobs(edges, jobs) ==
    LET more == jobs \cup {e[2] : e \in {d \in edges : d[1] \in jobs}}
    IN  IF more = jobs THEN jobs ELSE ReachableJobs(edges, more)

\* The prerequisites of a job, direct or not
PrereqsOf(edges, job_name) ==
    ReachableJobs(edges, {e[2] : e \in {d \in edges : d[1] = job_name}})

CycleThrough(edges, job_name) == job_name \in PrereqsOf(edges, job_name)

Finished == run.status \in {"returned", "raised"}

Failed(entry) == entry.result.raised \/ entry.result.code /= 0

\* C4: when the prerequisite edges contain a cycle through the requested job,
\* run_job does not recurse without end (the calls in progress below the
\* innermost one are for distinct jobs) and it ends by raising the
\* cyclic-prerequisite error; the error names the job at which the cycle was
\* detected and its prerequisite, and its call chain starts with the requested
\* job, follows prerequisite edges, and ends with the job detected, which occurs
\* earlier in the chain as well.
C4_CyclicPrerequisite ==
    /\ Len(job_frames) <= Cardinality(JobNames) + 1
    /\ \A i, j \in DOMAIN job_frames :
           (i < j /\ j < Len(job_frames))
               => job_frames[i].job_name /= job_frames[j].job_name
    /\ (Finished /\ CycleThrough(PrereqEdges, run.job_name))
           => (run.status = "raised" /\ run.error.kind = "cyclic")
    /\ run.error.kind = "cyclic" =>
           LET chain == run.error.chain
           IN  /\ run.status = "raised"
               /\ chain[1] = run.job_name
               /\ chain[Len(chain)] = run.error.job_name
               /\ \E i \in 1..(Len(chain) - 1) : chain[i] = run.error.job_name
               /\ \A i \in 1..(Len(chain) - 1) :
                      <<chain[i], chain[i + 1]>> \in PrereqEdges
               /\ <<run.error.job_name, run.error.prereq_name>> \in PrereqEdges

\* run_job("init") with init -> pre-init and pre-init -> init has raised the
\* error with the chain init->pre-init->init.
C4_Witness ==
    /\ run.status = "raised"
    /\ run.job_name = "init"
    /\ run.error.kind = "cyclic"
    /\ run.error.job_name = "init"
    /\ run.error.prereq_name = "pre-init"
    /\ run.error.chain = <<"init", "pre-init", "init">>
    /\ PrereqEdges = {<<"init", "pre-init">>, <<"pre-init", "init">>}

\* C5: for every task handed to the backend for a job J and every prerequisite
\* P of J (direct or not), every task of P has been handed before it and no task
\* of P is handed after it.
C5_PrerequisitesFirst ==
    \A j \in DOMAIN handed :
        \A p \in PrereqsOf(PrereqEdges, handed[j].job_name) :
            /\ \A i \in DOMAIN handed : i > j => handed[i].job_name /= p
            /\ \A t \in Range(CollectedTasks(registrations_by_hook, p, run.limit_to)) :
                   \E i \in 1..(j - 1) :
                       /\ handed[i].job_name = p
                       /\ handed[i].service = t[1]
                       /\ handed[i].command = CommandString(t[2], ExtraArgs)

\* run_job("init") with init -> pre-init has returned: the task of pre-init was
\* handed first, the task of init second.
C5_Witness ==
    /\ run.status = "returned"
    /\ run.job_name = "init"
    /\ PrereqEdges = {<<"init", "pre-init">>}
    /\ Len(handed) = 2
    /\ handed[1].job_name = "pre-init"
    /\ handed[2].job_name = "init"

\* The entry handed to the backend comes from an item of the registration of
\* the filter.
HandedFrom(entry, filter_name, registration) ==
    \E k \in DOMAIN registration.callback.items :
        LET item == registration.callback.items[k]
        IN  IF filter_name = "JOB_TASKS"
            THEN /\ item[1] = entry.job_name
                 /\ item[2] = entry.service
                 /\ entry.command = CommandString(item[3], ExtraArgs)
            ELSE /\ entry.job_name =
                        (IF filter_name = "COMMANDS_INIT" THEN "init" ELSE "pre-init")
                 /\ item[1] = entry.service
                 /\ entry.command = CommandString(CompatTasks(
                        [registrations_by_hook EXCEPT ![filter_name] = <<registration>>],
                        entry.job_name, None)[k][2], ExtraArgs)

TaskFilterNames == {"JOB_TASKS", "COMMANDS_INIT", "COMMANDS_PRE_INIT"}

\* C6: in a run_job with limit_to = L, every call of run_job in progress has the
\* limit L, and every task handed to the backend comes from a registration that
\* is tagged with the scope app:L.
C6_LimitedToScope ==
    run.limit_to /= "" =>
        /\ \A i \in DOMAIN job_frames : job_frames[i].limit_to = run.limit_to
        /\ \A i \in DOMAIN handed :
               \E filter_name \in TaskFilterNames :
                   \E registration \in Range(registrations_by_hook[filter_name]) :
                       /\ APP(run.limit_to) \in registration.contexts
                       /\ HandedFrom(handed[i], filter_name, registration)

\* run_job("init", limit_to="lms") has returned with init -> pre-init, a
\* pre-init task in the scope of cms and an init task in the scope of lms: only
\* the latter was handed to the backend.
C6_Witness ==
    /\ run.status = "returned"
    /\ run.job_name = "init"
    /\ run.limit_to = "lms"
    /\ PrereqEdges = {<<"init", "pre-init">>}
    /\ \E registration \in Range(registrations_by_hook["JOB_TASKS"]) :
           /\ registration.contexts = {APP("cms")}
           /\ registration.callback.items[1][1] = "pre-init"
    /\ Len(handed) = 1
    /\ handed[1].job_name = "init"
    /\ handed[1].service = "lms"

\* C9: a task that failed (raised, or exited with a non-zero code) is the last
\* task handed to the backend, and run_job does not return normally after it.
C9_FirstFailureAborts ==
    \A i \in DOMAIN handed :
        Failed(handed[i]) => (i = Len(handed) /\ run.status /= "returned")

\* C10: from its call to its end, by a return or by an exception, run_job
\* leaves the registrations of every hook and the stack of contexts as they were.
C10_RegistryUnchanged ==
    [][run'.status /= "idle" => UNCHANGED registry_vars]_vars

\* run_job has raised after a failure of the backend and the registry holds the
\* task it handed.
C10_Witness ==
    /\ run.status = "raised"
    /\ run.error.kind = "backend"
    /\ Len(handed) = 1
    /\ Len(registrations_by_hook["JOB_TASKS"]) = 1

\* The items of the registrations of a filter that a lookup limited to limit_to
\* sees, in the order the registry keeps the registrations.
RECURSIVE ItemsSeen(_, _)
ItemsSeen(registrations, limit_to) ==
    IF registrations = <<>> THEN <<>>
    ELSE LET registration == Head(registrations)
             seen == limit_to = "" \/ APP(limit_to) \in registration.contexts
         IN  (IF seen THEN registration.callback.items ELSE <<>>)
             \o ItemsSeen(Tail(registrations), limit_to)

\* The JOB_TASKS entries named job_name, in registry order, as (service, command)
OwnTasks(job_name, limit_to) ==
    LET items == SelectSeq(ItemsSeen(registrations_by_hook["JOB_TASKS"], limit_to),
                           LAMBDA item : item[1] = job_name)
    IN  [i \in DOMAIN items |->
            [service |-> items[i][2],
             command |-> CommandString(items[i][3], ExtraArgs)]]

\* The legacy entries of init and pre-init, in registry order, each rendered
\* and wrapped as sh -c <rendered>
WrappedLegacyTasks(job_name, limit_to) ==
    LET items ==
            IF job_name = "init"
            THEN ItemsSeen(registrations_by_hook["COMMANDS_INIT"], limit_to)
            ELSE IF job_name = "pre-init"
            THEN ItemsSeen(registrations_by_hook["COMMANDS_PRE_INIT"], limit_to)
            ELSE <<>>
    IN  [i \in DOMAIN items |->
            [service |-> items[i][1],
             command |-> CommandString(<<"sh", "-c", Render(items[i][2])>>, ExtraArgs)]]

\* The tasks that the call of run_job at the top of the stack has handed so far
HandedByTop ==
    LET count == Top.task_position - 1
    IN  [i \in 1..count |->
            [service |-> handed[Len(handed) - count + i].service,
             command |-> handed[Len(handed) - count + i].command]]

\* C16: while run_job(J) runs its tasks, the tasks it has handed to the backend
\* for J are, in order, the first ones of: the JOB_TASKS entries named J in the
\* order of the registry, followed by the legacy COMMANDS_INIT or
\* COMMANDS_PRE_INIT entries (for J = init or pre-init) in the order of their
\* registry, each rendered and wrapped as a shell command.
C16_TasksInRegistryOrder ==
    (run.status = "running" /\ Top.phase = "tasks") =>
        LET expected == OwnTasks(Top.job_name, Top.limit_to)
                        \o WrappedLegacyTasks(Top.job_name, Top.limit_to)
        IN  /\ Top.task_position - 1 <= Len(expected)
            /\ Top.task_position - 1 <= Len(handed)
            /\ HandedByTop = SubSeq(expected, 1, Top.task_position - 1)
            /\ Len(Top.tasks) = Len(expected)

\* run_job("init") has handed all its tasks: the task of lms, registered first,
\* then the task of cms, then the legacy command of lms as sh -c.
C16_Witness ==
    /\ run.status = "running"
    /\ Top.phase = "tasks"
    /\ Top.job_name = "init"
    /\ Top.task_position = 4
    /\ Len(handed) = 3
    /\ handed[1].service = "lms"
    /\ handed[1].command = CommandString(TaskCommand("init", "lms"), ExtraArgs)
    /\ handed[2].service = "cms"
    /\ handed[2].command = CommandString(TaskCommand("init", "cms"), ExtraArgs)
    /\ handed[3].service = "lms"
    /\ handed[3].command =
           CommandString(<<"sh", "-c", Render(LegacyPath("init", "lms"))>>, ExtraArgs)

\* The job that run_job was called for has no prerequisite edge and no task
\* entry that a lookup limited to the limit of the call sees.
NothingToRun ==
    /\ \A edge \in PrereqEdges : edge[1] /= run.job_name
    /\ OwnTasks(run.job_name, run.limit_to) = <<>>
    /\ WrappedLegacyTasks(run.job_name, run.limit_to) = <<>>

\* C17: a call of run_job for a job that has no prerequisite edge and no
\* matching task entry (a name nothing declared, or a job whose tasks are all
\* outside the limit) hands nothing to the backend and does not raise.
C17_NoTaskIsNoOp ==
    (run.status /= "idle" /\ NothingToRun) =>
        /\ handed = <<>>
        /\ run.status /= "raised"
        /\ Len(job_frames) <= 1

\* run_job("undeclared") has returned while the registry holds an edge and
\* tasks of other jobs.
C17_Witness ==
    /\ run.status = "returned"
    /\ run.job_name = UndeclaredJob
    /\ PrereqEdges /= {}
    /\ registrations_by_hook["JOB_TASKS"] /= <<>>
    /\ registrations_by_hook["COMMANDS_INIT"] /= <<>>
    /\ handed = <<>>

\* An edge (name, prereq_name) registered within the scope of the app limit_to
EdgeInScope(name, prereq_name, limit_to) ==
    \E registration \in Range(registrations_by_hook["JOB_PREREQS"]) :
        /\ APP(limit_to) \in registration.contexts
        /\ <<name, prereq_name>> \in Range(registration.callback.items)

\* C18, as stated: in a run_job with a limit, a prerequisite job is run only
\* when its edge was registered within the limiting scope.
C18_AsStated ==
    run.limit_to /= "" =>
        \A i \in DOMAIN job_frames :
            i > 1 => EdgeInScope(job_frames[i - 1].job_name, job_frames[i].job_name,
                                 run.limit_to)

\* C18: the limit of run_job does not apply to the prerequisite edges.  Every
\* call of run_job walks all the edges of the registry, whatever the scope they
\* were registered in: a call in progress under it is for the prerequisite of
\* the edge it is at, the edges of the job before that one are done with, and
\* the call that runs its tasks is past every edge.  The limit is passed on to
\* the prerequisite.
C18_EdgesNotLimited ==
    \A i \in DOMAIN job_frames :
        LET frame == job_frames[i]
            edges == ItemsSeen(registrations_by_hook["JOB_PREREQS"], "")
        IN  /\ frame.job_prereqs = edges
            /\ frame.limit_to = run.limit_to
            /\ i < Len(job_frames) =>
                   /\ frame.phase = "prereqs"
                   /\ frame.position \in DOMAIN edges
                   /\ edges[frame.position] =
                          <<frame.job_name, job_frames[i + 1].job_name>>
            /\ frame.phase = "tasks" => frame.position = Len(edges) + 1

\* run_job("init", limit_to="lms") has run pre-init, and handed its task of lms,
\* though the only edge init -> pre-init was registered in the scope of cms.
C18_Witness ==
    /\ run.status = "returned"
    /\ run.job_name = "init"
    /\ run.limit_to = "lms"
    /\ Len(registrations_by_hook["JOB_PREREQS"]) = 1
    /\ registrations_by_hook["JOB_PREREQS"][1].contexts = {APP("cms")}
    /\ ~EdgeInScope("init", "pre-init", "lms")
    /\ Len(handed) = 1
    /\ handed[1].job_name = "pre-init"
    /\ handed[1].service = "lms"

\* The argument vectors of the tasks that the registry holds for a job in a
\* service: those of its JOB_TASKS entries, and sh -c <rendered> for the legacy
\* entries of init and pre-init.
VectorsOf(job_name, service) ==
    LET own == {item[3] :
                   item \in {t \in Range(ItemsSeen(registrations_by_hook["JOB_TASKS"], "")) :
                                 t[1] = job_name /\ t[2] = service}}
        legacy_filter == IF job_name = "init" THEN "COMMANDS_INIT"
                         ELSE "COMMANDS_PRE_INIT"
        legacy == IF job_name \in {"init", "pre-init"}
                  THEN {<<"sh", "-c", Render(item[2])>> :
                           item \in {t \in Range(ItemsSeen(
                                         registrations_by_hook[legacy_filter], "")) :
                                         t[1] = service}}
                  ELSE {}
    IN  own \cup legacy

\* The words of a command are those of vector followed by those of extra_args.
IsVectorThenArgs(words, vector, extra_args) ==
    /\ Len(words) = Len(vector) + Len(extra_args)
    /\ \A k \in DOMAIN vector : words[k] = vector[k]
    /\ \A k \in DOMAIN extra_args : words[Len(vector) + k] = extra_args[k]

\* C19: every command handed to the backend is one string made of the words of
\* the argument vector of the task followed by the extra_args of the caller, in
\* that order; every call of run_job for a prerequisite has the extra_args of
\* the outermost call, so the same holds of the tasks of the prerequisites.
C19_ExtraArgsAppended ==
    /\ \A i \in DOMAIN job_frames : job_frames[i].extra_args = ExtraArgs
    /\ \A i \in DOMAIN handed :
           \E vector \in VectorsOf(handed[i].job_name, handed[i].service) :
               IsVectorThenArgs(handed[i].command.words, vector, ExtraArgs)

\* run_job("init") with init -> pre-init has handed the task of pre-init and
\* then the task of init, each with the extra_args after its own words.
C19_Witness ==
    /\ run.status = "returned"
    /\ run.job_name = "init"
    /\ Len(handed) = 2
    /\ handed[1].job_name = "pre-init"
    /\ handed[1].command.words =
           <<"sh", <<"/openedx/tasks/openedx", "lms", "pre-init">>, "user1", "--staff">>
    /\ handed[2].job_name = "init"
    /\ handed[2].command.words =
           <<"sh", <<"/openedx/tasks/openedx", "lms", "init">>, "user1", "--staff">>

----------------------------------------------------------------------------
(* Claims about the cluster run_task *)

IsActivePoll(entry) == entry.op = "active_task_names"

IsBusyPoll(entry) == IsActivePoll(entry) /\ entry.value /= {}

IsEmptyPoll(entry) == IsActivePoll(entry) /\ entry.value = {}

IsSleep(entry) == entry.op = "sleep" /\ entry.value = PollInterval

IsWrite(entry) == entry.op = "write"

IsApply(entry) == entry.op = "kubectl_apply"

IsStatusPoll(entry) == entry.op = "list_namespaced_job"

\* The status poll reports the job as listed and not active.
IsInactivePoll(entry) ==
    IsStatusPoll(entry) /\ entry.value /= <<>> /\ ~entry.value[1].active

\* C7: in every call of the cluster run_task, the operations up to the apply
\* are: polls of the active tasks that return a non-empty set, each followed by
\* exactly one sleep of the polling interval, then the first poll that returns
\* the empty set, then the manifest written and applied; there is no apply
\* without that empty poll two operations before it, and no poll of the active
\* tasks after an empty one.
C7_ExclusiveSubmit ==
    \A r \in DOMAIN k8s_calls :
        LET log == k8s_calls[r].log
        IN  /\ \A i \in DOMAIN log :
                   IsBusyPoll(log[i]) =>
                       IF i = Len(log)
                       THEN k8s_calls[r].pc = "sleep_active"
                       ELSE /\ IsSleep(log[i + 1])
                            /\ i + 1 < Len(log) => IsActivePoll(log[i + 2])
            /\ \A i \in DOMAIN log :
                   IsEmptyPoll(log[i]) =>
                       /\ \A k \in 1..(i - 1) :
                              IF k % 2 = 1 THEN IsBusyPoll(log[k]) ELSE IsSleep(log[k])
                       /\ \A k \in (i + 1)..Len(log) : ~IsActivePoll(log[k])
                       /\ i + 2 <= Len(log) => IsApply(log[i + 2])
            /\ \A i \in DOMAIN log :
                   IsApply(log[i]) =>
                       /\ i >= 3
                       /\ IsWrite(log[i - 1])
                       /\ IsEmptyPoll(log[i - 2])
                       /\ log[i - 1].value.label = log[i].value
                       /\ \A k \in DOMAIN log : IsApply(log[k]) => k = i

\* One active job for the first two polls, none at the third: two sleeps, then
\* the manifest is written and applied.
C7_Witness ==
    /\ Len(k8s_calls[1].log) = 7
    /\ k8s_calls[1].log[1] = Op("active_task_names", {OtherJob})
    /\ IsSleep(k8s_calls[1].log[2])
    /\ k8s_calls[1].log[3] = Op("active_task_names", {OtherJob})
    /\ IsSleep(k8s_calls[1].log[4])
    /\ k8s_calls[1].log[5] = Op("active_task_names", {})
    /\ IsWrite(k8s_calls[1].log[6])
    /\ IsApply(k8s_calls[1].log[7])
    /\ k8s_calls[1].log[7].value = TaskName("lms", 1)

\* The last operation of the call is a status poll that reported the job as
\* listed and not active.
EndsInactive(call) ==
    call.log /= <<>> /\ IsInactivePoll(call.log[Len(call.log)])

LastStatus(call) == call.log[Len(call.log)].value[1]

\* C8 as stated: once the job is reported as not active, run_task returns 0 if
\* the succeeded flag is set and raises, naming the job, if the failed flag is
\* set.
C8_AsStated ==
    \A r \in DOMAIN k8s_calls :
        EndsInactive(k8s_calls[r]) =>
            /\ LastStatus(k8s_calls[r]).succeeded => k8s_calls[r].outcome = Returned
            /\ LastStatus(k8s_calls[r]).failed =>
                   k8s_calls[r].outcome = Raised(k8s_calls[r].task_name)

\* C8, amended: once the job is reported as not active, run_task returns 0 if
\* the succeeded flag is set, and raises an error that names the submitted job
\* if the failed flag is set and the succeeded flag is not; it returns or
\* raises in no other case.
C8_TerminalOutcome ==
    \A r \in DOMAIN k8s_calls :
        LET call == k8s_calls[r]
        IN  /\ EndsInactive(call) =>
                   /\ LastStatus(call).succeeded => call.outcome = Returned
                   /\ (LastStatus(call).failed /\ ~LastStatus(call).succeeded) =>
                          /\ call.outcome = Raised(call.task_name)
                          /\ \E i \in DOMAIN call.log :
                                 /\ IsApply(call.log[i])
                                 /\ call.log[i].value = call.outcome.task_name
            /\ call.outcome /= NoOutcome =>
                   /\ EndsInactive(call)
                   /\ LastStatus(call).succeeded \/ LastStatus(call).failed

\* The job was reported active, then not active with the failed flag only:
\* run_task has raised the error naming the job.
C8_Witness ==
    /\ Len(k8s_calls[1].log) >= 3
    /\ LET log == k8s_calls[1].log
       IN  /\ IsStatusPoll(log[Len(log) - 2])
           /\ log[Len(log) - 2].value =
                  <<[active |-> TRUE, succeeded |-> FALSE, failed |-> FALSE]>>
           /\ IsSleep(log[Len(log) - 1])
           /\ IsStatusPoll(log[Len(log)])
           /\ log[Len(log)].value =
                  <<[active |-> FALSE, succeeded |-> FALSE, failed |-> TRUE]>>
    /\ k8s_calls[1].outcome = Raised(TaskName("lms", 1))

\* The number of times the call has applied the manifest
Applies(call) == Len(SelectSeq(call.log, IsApply))

\* The status poll reports the job as not active, failed and not succeeded.
IsFailedPoll(entry) ==
    IsInactivePoll(entry) /\ entry.value[1].failed /\ ~entry.value[1].succeeded

\* C20: a call of the cluster run_task never applies the manifest twice, and
\* has applied it exactly once when it waits for the completion of the job or
\* has ended; when it has raised, the status poll that reported the failure is
\* its last operation: no apply, no poll and no sleep follows it.
C20_NoRetry ==
    \A r \in DOMAIN k8s_calls :
        LET call == k8s_calls[r]
        IN  /\ Applies(call) <= 1
            /\ call.pc \in {"completion", "sleep_completion", "returned", "raised"} =>
                   Applies(call) = 1
            /\ call.outcome.kind = "raised" =>
                   /\ call.pc = "raised"
                   /\ IsFailedPoll(call.log[Len(call.log)])
                   /\ \A i \in 1..(Len(call.log) - 1) : ~IsFailedPoll(call.log[i])

\* The call found no active task, applied the manifest and raised at the first
\* status poll, which reported the failure; the cluster has since listed the job
\* as succeeded and the call has done nothing more.
C20_Witness ==
    /\ k8s_calls[1].outcome.kind = "raised"
    /\ Len(k8s_calls[1].log) = 4
    /\ IsEmptyPoll(k8s_calls[1].log[1])
    /\ IsApply(k8s_calls[1].log[3])
    /\ IsFailedPoll(k8s_calls[1].log[4])
    /\ \E i \in DOMAIN namespace_jobs :
           /\ namespace_jobs[i].name = k8s_calls[1].task_name
           /\ namespace_jobs[i].status.succeeded

\* The call has seen the empty set of active tasks and has not applied yet.
PassedExclusivity(call) ==
    /\ call.pc \in {"configure", "apply"}
    /\ call.log /= <<>>
    /\ \E i \in DOMAIN call.log : IsEmptyPoll(call.log[i])

\* The job that the call submitted is listed as active.
SubmittedActive(call) ==
    /\ Applies(call) = 1
    /\ \E i \in DOMAIN namespace_jobs :
           /\ namespace_jobs[i].name = call.task_name
           /\ namespace_jobs[i].listed
           /\ namespace_jobs[i].status.active

\* C21: the check of exclusivity is not atomic with the submission.  A call that
\* has seen the empty set of active tasks goes on to write and to apply its
\* manifest whatever the namespace holds by then: its next step is never held
\* back, not even while the job of another call is active.
C21_CheckNotAtomic ==
    \A r \in DOMAIN k8s_calls :
        PassedExclusivity(k8s_calls[r]) =>
            IF k8s_calls[r].pc = "configure"
            THEN ENABLED K8sWriteTask(r)
            ELSE ENABLED K8sApply(r)

\* Both calls saw the empty set of active tasks, both applied their manifest,
\* and the two submitted jobs are active at the same time.
C21_Witness ==
    /\ Len(k8s_calls) = 2
    /\ \A r \in DOMAIN k8s_calls :
           /\ Len(k8s_calls[r].log) >= 3
           /\ IsEmptyPoll(k8s_calls[r].log[1])
           /\ IsApply(k8s_calls[r].log[3])
           /\ SubmittedActive(k8s_calls[r])
    /\ k8s_calls[1].task_name /= k8s_calls[2].task_name

\* C22: in the loop that waits for the completion, a status poll that does not
\* end the call (job active, job not listed, job inactive with no flag set) is
\* followed by exactly one sleep of the polling interval, and that sleep by the
\* next status poll.
C22_SleepBetweenStatusPolls ==
    \A r \in DOMAIN k8s_calls :
        LET call == k8s_calls[r]
            log == call.log
        IN  \A i \in DOMAIN log :
                (IsStatusPoll(log[i]) /\ (i < Len(log) \/ call.outcome = NoOutcome)) =>
                    IF i = Len(log)
                    THEN call.pc = "sleep_completion"
                    ELSE /\ IsSleep(log[i + 1])
                         /\ i + 1 < Len(log) => IsStatusPoll(log[i + 2])

\* C23: the manifest that run_task writes is the template <service>-job with
\* the name <service>-job-<timestamp>, the same value as label, backoffLimit 1
\* and ttlSecondsAfterFinished 3600; when the command of the template is the
\* empty list the command becomes sh -e -c and args the command alone, otherwise
\* the command of the template is kept and args is sh -e -c followed by the
\* command.  The file holds that manifest, the apply selects its label, and the
\* job created has its name.
C23_PatchedManifest ==
    \A r \in DOMAIN k8s_calls :
        LET call == k8s_calls[r]
            log == call.log
        IN  \A i \in DOMAIN log :
                /\ IsWrite(log[i]) =>
                       LET task == log[i].value
                       IN  /\ task.name = <<call.service, "job", r>>
                           /\ task.label = task.name
                           /\ task.backoffLimit = 1
                           /\ task.ttlSecondsAfterFinished = 3600
                           /\ IF call.template_command = <<<<>>>>
                              THEN /\ task.command = <<<<"sh", "-e", "-c">>>>
                                   /\ task.args = <<call.command>>
                              ELSE /\ task.command = call.template_command
                                   /\ task.args = <<"sh", "-e", "-c", call.command>>
                           /\ jobs_yml = <<task>>
                /\ IsApply(log[i]) =>
                       /\ i > 1
                       /\ IsWrite(log[i - 1])
                       /\ log[i].value = log[i - 1].value.label
                       /\ \E k \in DOMAIN namespace_jobs :
                              namespace_jobs[k].name = log[i - 1].value.name

\* The template of the task has the empty list as command: the manifest applied
\* has the command sh -e -c and the command of the task as its only argument.
C23_Witness ==
    /\ k8s_calls[1].pc = "completion"
    /\ k8s_calls[1].template_command = <<<<>>>>
    /\ jobs_yml /= <<>>
    /\ jobs_yml[1].name = <<"lms", "job", 1>>
    /\ jobs_yml[1].command = <<<<"sh", "-e", "-c">>>>
    /\ jobs_yml[1].args = <<"command">>
    /\ \E k \in DOMAIN namespace_jobs : namespace_jobs[k].name = <<"lms", "job", 1>>

\* The subcommands that a step has just added
JustAdded == last'.op = "add subcommands" /\ last' /= last

\* The entries a surface enumerates: the items of CLI_TASKS in the order of
\* the registry, followed for tasks.py by the entries of init and pre-init that
\* stand for the legacy filters
Enumerated(source) ==
    LET registered == ItemsSeen(registrations_by_hook["CLI_TASKS"], "")
        named == [i \in DOMAIN registered |->
                     [name |-> registered[i][1], help |-> registered[i][2]]]
    IN  IF source = "tasks.py"
        THEN named \o <<[name |-> "init", help |-> ""],
                        [name |-> "pre-init", help |-> ""]>>
        ELSE named

\* The position of a name in the alphabetical order
Rank(name) == CHOOSE k \in DOMAIN AlphabeticalNames : AlphabeticalNames[k] = name

\* C24: when the names of tasks are enumerated to build the subcommands, each
\* distinct name yields exactly one subcommand, whose helptext is that of the
\* first entry of that name in the order of the registry, and the subcommands
\* are added in the alphabetical order of their names.
C24_FirstHelptextWins ==
    [][JustAdded =>
          LET subcommands == last'.result
              entries == Enumerated(last'.name)
          IN  /\ {subcommands[k].name : k \in DOMAIN subcommands}
                     = {entries[i].name : i \in DOMAIN entries}
              /\ \A k, l \in DOMAIN subcommands :
                     k < l => Rank(subcommands[k].name) < Rank(subcommands[l].name)
              /\ \A k \in DOMAIN subcommands :
                     \E i \in DOMAIN entries :
                         /\ entries[i].name = subcommands[k].name
                         /\ entries[i].help = subcommands[k].help
                         /\ \A j \in 1..(i - 1) :
                                entries[j].name /= subcommands[k].name]_vars

\* init was registered with one helptext, createuser next, init again with
\* another helptext: do.py has added createuser, then init with the helptext
\* of its first registration.
C24_Witness ==
    /\ last.op = "add subcommands"
    /\ last.name = "do.py"
    /\ Len(registrations_by_hook["CLI_TASKS"]) = 3
    /\ ItemsSeen(registrations_by_hook["CLI_TASKS"], "") =
           <<CliTask("init", "help 2"), CliTask("createuser", "help 1"),
             CliTask("init", "help 1")>>
    /\ last.result = <<[name |-> "createuser", help |-> "help 1"],
                       [name |-> "init", help |-> "help 2"]>>

\* The calls of load that _load_plugins has made, in order
LoadEvents == SelectSeq(loading.events, LAMBDA event : event.op = "load")

PluginRank(name) ==
    CHOOSE k \in DOMAIN AlphabeticalPlugins : AlphabeticalPlugins[k] = name

\* C25: when _load_plugins has ended, it has called load once for each distinct
\* name it was given, in alphabetical order, whether or not an earlier plugin
\* failed to load, and after the last load it has fired LOAD_PLUGINS_POST
\* exactly once.
C25_LoadsAllThenPost ==
    loading.pc \in {"returned", "raised"} =>
        /\ {LoadEvents[i].name : i \in DOMAIN LoadEvents} = Range(loading.given)
        /\ \A i, j \in DOMAIN LoadEvents :
               i < j => PluginRank(LoadEvents[i].name) < PluginRank(LoadEvents[j].name)
        /\ Len(loading.events) = Len(LoadEvents) + 1
        /\ loading.events[Len(loading.events)].op = "LOAD_PLUGINS_POST"

\* C26, as stated: disable(p) right after load(p) leaves the registry as it was
\* before load(p).
C26_AsStated ==
    (last.op = "disable" /\ last.loaded_before /= None) =>
        registrations_by_hook = last.loaded_before[1]

\* The registrations of a hook that are not tagged with the context
Untagged(registrations, context) ==
    SelectSeq(registrations, LAMBDA registration : context \notin registration.contexts)

\* C26: disable(p) right after load(p) leaves, for every hook, the registrations
\* that were there before load(p) and are not tagged app:p, in their order: the
\* registrations made by load(p) are removed, those of the core and of the
\* other plugins are kept, and the registry is as it was before load(p) when no
\* registration was tagged app:p then.
C26_DisableUndoesLoad ==
    (last.op = "disable" /\ last.loaded_before /= None) =>
        LET before == last.loaded_before[1]
            tag == APP(last.name)
        IN  /\ \A hook_name \in DOMAIN before :
                   registrations_by_hook[hook_name] = Untagged(before[hook_name], tag)
            /\ (\A hook_name \in DOMAIN before :
                    \A registration \in Range(before[hook_name]) :
                        tag \notin registration.contexts)
                   => registrations_by_hook = before

\* mfe was loaded after two registrations of the core and then disabled: the
\* two registrations of the core are what the registry holds, as before the
\* load.
C26_Witness ==
    /\ last.op = "disable"
    /\ last.name = "mfe"
    /\ last.loaded_before /= None
    /\ Len(last.loaded_before[1]["test:sheeps"]) = 2
    /\ registrations_by_hook = last.loaded_before[1]
    /\ next_id = 4

\* The status poll reports the job as listed, not active, and succeeded or
\* failed.
IsTerminalPoll(entry) ==
    IsInactivePoll(entry) /\ (entry.value[1].succeeded \/ entry.value[1].failed)

\* C27: the call leaves its completion loop only on a status poll that reports
\* the job as listed, not active, and succeeded or failed: such a poll is the
\* last operation of the call, which has then returned or raised; after any
\* other status poll the call has neither returned nor raised, and what it does
\* next is to poll again, at once or after its sleep.
C27_LeavesOnTerminalPollOnly ==
    \A r \in DOMAIN k8s_calls :
        LET call == k8s_calls[r]
            log == call.log
        IN  /\ \A i \in DOMAIN log :
                   IsStatusPoll(log[i]) =>
                       IF IsTerminalPoll(log[i])
                       THEN /\ i = Len(log)
                            /\ call.outcome /= NoOutcome
                            /\ call.pc \in {"returned", "raised"}
                       ELSE IF i = Len(log)
                            THEN /\ call.outcome = NoOutcome
                                 /\ call.pc \in {"completion", "sleep_completion"}
                            ELSE \/ IsStatusPoll(log[i + 1])
                                 \/ /\ IsSleep(log[i + 1])
                                    /\ i + 1 < Len(log) => IsStatusPoll(log[i + 2])
            /\ call.outcome /= NoOutcome =>
                   /\ log /= <<>>
                   /\ IsStatusPoll(log[Len(log)])
                   /\ IsTerminalPoll(log[Len(log)])

\* The job was reported active with its succeeded flag set: the call slept and
\* polled again, and returned only when the job was reported not active.
C27_Witness ==
    /\ k8s_calls[1].outcome = Returned
    /\ LET log == k8s_calls[1].log
       IN  /\ Len(log) = 6
           /\ IsStatusPoll(log[4])
           /\ log[4].value = <<[active |-> TRUE, succeeded |-> TRUE, failed |-> FALSE]>>
           /\ IsSleep(log[5])
           /\ IsTerminalPoll(log[6])

\* The call can still poll the cluster within the bound of the model.
CanPoll(call) == Polls(call.log) < MaxPolls

\* The call waits for the other tasks and the namespace has no active job.
WaitsOnQuietNamespace ==
    /\ k8s_calls[1].pc \in {"wait_active", "sleep_active"}
    /\ CanPoll(k8s_calls[1])
    /\ ActiveTaskNames(namespace_jobs) = {}

\* The cluster reports the job of the call as not active, succeeded or failed.
ReportedDone ==
    LET items == NamespacedTasks(namespace_jobs, k8s_calls[1].task_name)
    IN  /\ items /= <<>>
        /\ ~items[1].active
        /\ items[1].succeeded \/ items[1].failed

\* The call waits for the completion of its job, which is reported done.
WaitsOnDoneJob ==
    /\ k8s_calls[1].pc \in {"completion", "sleep_completion"}
    /\ CanPoll(k8s_calls[1])
    /\ ReportedDone

\* C28: run_task has no timeout, and ends when the cluster cooperates.  A call
\* that waits for the other tasks while the namespace has no active job either
\* submits its job or the namespace gets an active job again; a call that waits
\* for its job while the job is reported not active and succeeded or failed
\* either returns or raises, or the report changes.  No number of polls makes a
\* call give up: while the report is not final it has neither returned nor
\* raised.
C28_EndsWhenClusterCooperates ==
    /\ WaitsOnQuietNamespace ~>
           (Applies(k8s_calls[1]) = 1 \/ ActiveTaskNames(namespace_jobs) /= {})
    /\ WaitsOnDoneJob ~>
           (k8s_calls[1].outcome /= NoOutcome \/ ~ReportedDone)
    /\ [](k8s_calls[1].outcome /= NoOutcome =>
              IsTerminalPoll(k8s_calls[1].log[Len(k8s_calls[1].log)]))

\* The call waited for an active job to end, submitted its job, and returned
\* at the first status poll, which reported the job succeeded.
C28_Witness ==
    /\ k8s_calls[1].outcome = Returned
    /\ LET log == k8s_calls[1].log
       IN  /\ Len(log) = 6
           /\ IsBusyPoll(log[1])
           /\ IsSleep(log[2])
           /\ IsEmptyPoll(log[3])
           /\ IsApply(log[5])
           /\ IsTerminalPoll(log[6])

\* The phase of a call of run_task: 1 while it waits for the other tasks,
\* 2 while it configures and submits its job, 3 while it waits for its job,
\* 4 when it has returned or raised.
Phase(pc) ==
    IF pc \in {"wait_active", "sleep_active"} THEN 1
    ELSE IF pc \in {"configure", "apply"} THEN 2
    ELSE IF pc \in {"completion", "sleep_completion"} THEN 3
    ELSE 4

\* The phase an operation of the log belongs to; a sleep belongs to the phase
\* of the poll before it.
PhaseOf(log, i) ==
    LET entry == IF IsSleep(log[i]) /\ i > 1 THEN log[i - 1] ELSE log[i]
    IN  IF IsActivePoll(entry) THEN 1
        ELSE IF IsWrite(entry) \/ IsApply(entry) THEN 2
        ELSE 3

\* C29: a call of the cluster run_task moves through its phases forward only.
\* In the operations of a started call, no operation of an earlier phase follows
\* one of a later phase: every poll of the active tasks precedes the write of
\* the manifest, the one write precedes the one apply, every status poll
\* follows the apply; the call is never in a phase earlier than that of its
\* last operation; and a status poll that reports the job not active and
\* succeeded or failed is the last operation of the call.
C29_PhasesForwardOnly ==
    \A r \in DOMAIN k8s_calls :
        LET log == k8s_calls[r].log
        IN  k8s_calls[r].pc /= "idle" =>
              /\ \A i, j \in DOMAIN log : i < j => PhaseOf(log, i) <= PhaseOf(log, j)
              /\ \A i, j \in DOMAIN log :
                     /\ IsWrite(log[i]) /\ IsApply(log[j]) => i < j
                     /\ IsActivePoll(log[i]) /\ IsApply(log[j]) => i < j
                     /\ IsApply(log[i]) /\ IsStatusPoll(log[j]) => i < j
                     /\ IsApply(log[i]) /\ IsApply(log[j]) => i = j
                     /\ IsWrite(log[i]) /\ IsWrite(log[j]) => i = j
              /\ \A j \in DOMAIN log :
                     IsStatusPoll(log[j]) => \E i \in 1..(j - 1) : IsApply(log[i])
              /\ \A j \in DOMAIN log :
                     IsApply(log[j]) => \E i \in 1..(j - 1) : IsWrite(log[i])
              /\ log /= <<>> => PhaseOf(log, Len(log)) <= Phase(k8s_calls[r].pc)
              /\ \A i \in DOMAIN log : IsTerminalPoll(log[i]) => i = Len(log)
              /\ Phase(k8s_calls[r].pc) = 4 => IsTerminalPoll(log[Len(log)])

\* A call that went through the four phases: it waited for an active job,
\* wrote and applied its manifest, saw its job active, slept, and raised when
\* the job was reported failed.
C29_Witness ==
    \E r \in DOMAIN k8s_calls :
        LET log == k8s_calls[r].log
        IN  /\ k8s_calls[r].outcome = Raised(k8s_calls[r].task_name)
            /\ Len(log) = 6
            /\ IsEmptyPoll(log[1])
            /\ IsWrite(log[2])
            /\ IsApply(log[3])
            /\ IsStatusPoll(log[4]) /\ ~IsInactivePoll(log[4]) /\ log[4].value /= <<>>
            /\ IsSleep(log[5])
            /\ IsFailedPoll(log[6])

\* The job names of a run: the requested job and the jobs of the edges
KnownJobs ==
    {run.job_name} \cup {e[1] : e \in PrereqEdges} \cup {e[2] : e \in PrereqEdges}

\* A cycle of prerequisites can be reached from the job
CycleBelow(edges, job_name) ==
    \E j \in ReachableJobs(edges, {job_name}) : CycleThrough(edges, j)

NoDuplicates(seq) == \A i, j \in DOMAIN seq : seq[i] = seq[j] => i = j

\* The job_call_stack of every call in progress holds the jobs of its callers,
\* outermost first, no job twice, so no more jobs than there are.
CallChainsBounded ==
    /\ Len(job_frames) <= Cardinality(KnownJobs) + 1
    /\ \A i \in DOMAIN job_frames :
           LET job_call_stack == job_frames[i].job_call_stack
           IN  /\ job_call_stack = [k \in 1..(i - 1) |-> job_frames[k].job_name]
               /\ NoDuplicates(job_call_stack)
               /\ Len(job_call_stack) <= Cardinality(KnownJobs)
               /\ job_frames[i].job_name \in Range(job_call_stack)
                      => i = Len(job_frames) /\ job_frames[i].phase = "prereqs"

\* A run that ended has returned when no cycle is below the requested job, and
\* has raised the cyclic-prerequisite error when there is one.
EndsAsTheGraphSays ==
    /\ run.status = "returned" => ~CycleBelow(PrereqEdges, run.job_name)
    /\ run.status = "raised" =>
           /\ run.error.kind = "cyclic"
           /\ CycleBelow(PrereqEdges, run.job_name)
           /\ NoDuplicates(SubSeq(run.error.chain, 1, Len(run.error.chain) - 1))

\* C30: whatever the prerequisite edges and the requested job, the resolution
\* of the prerequisites in run_job ends.  The job_call_stack of a call never
\* holds the same job twice, so it never holds more jobs than there are; a call
\* for a job of its own stack makes no further call; and every run_job that was
\* started returns, or raises the cyclic-prerequisite error.
C30_ResolutionTerminates ==
    /\ [](CallChainsBounded /\ EndsAsTheGraphSays)
    /\ (run.status = "running") ~> Finished

\* run_job("init") over the cycle init -> createuser -> pre-init -> init has
\* raised: the stack of the raising call held each of the three jobs once.
C30_Witness ==
    /\ run.status = "raised"
    /\ run.job_name = "init"
    /\ run.error.kind = "cyclic"
    /\ run.error.chain = <<"init", "createuser", "pre-init", "init">>
    /\ Cardinality(KnownJobs) = 3

\* run_job("init") over the diamond-free chain init -> createuser -> pre-init
\* has returned after its task was handed to the backend.
C30_ReturnedWitness ==
    /\ run.status = "returned"
    /\ run.job_name = "init"
    /\ PrereqEdges = {<<"init", "createuser">>, <<"createuser", "pre-init">>}

\* The jobs of the cycle that the error names: the jobs of the chain from the
\* first occurrence of the job the chain ends with.
RECURSIVE CycleJobs(_)
CycleJobs(chain) ==
    IF chain = <<>> THEN {}
    ELSE IF chain[1] = chain[Len(chain)] THEN Range(chain)
    ELSE CycleJobs(Tail(chain))

RaisedCyclic == run.status = "raised" /\ run.error.kind = "cyclic"

\* C31: when run_job has raised the cyclic-prerequisite error, no task of the
\* requested job and no task of a job of the detected cycle has been handed to
\* the backend.
C31_NoTaskOfTheCycle ==
    RaisedCyclic =>
        \A i \in DOMAIN handed :
            /\ handed[i].job_name /= run.job_name
            /\ handed[i].job_name \notin CycleJobs(run.error.chain)

\* run_job("init") has raised for the cycle of createuser with itself after
\* the task of pre-init, a prerequisite before the cycle, was handed; init and
\* createuser have a task too.
C31_Witness ==
    /\ RaisedCyclic
    /\ run.job_name = "init"
    /\ run.error.chain = <<"init", "createuser", "createuser">>
    /\ CycleJobs(run.error.chain) = {"createuser"}
    /\ Len(handed) = 1
    /\ handed[1].job_name = "pre-init"

\* The registered prerequisite edges in the order run_job iterates them, an
\* edge registered twice being there twice
PrereqEdgeList == FilterIterate(registrations_by_hook, "JOB_PREREQS", None)

\* The number of paths of registered edges from a job to a target job, the
\* empty path included (for a graph without a cycle below the job)
RECURSIVE PathCount(_, _, _, _)
PathCount(edges, job_name, target, position) ==
    IF position > Len(edges) THEN (IF job_name = target THEN 1 ELSE 0)
    ELSE (IF edges[position][1] = job_name
          THEN PathCount(edges, edges[position][2], target, 1)
          ELSE 0)
         + PathCount(edges, job_name, target, position + 1)

HandedFor(job_name) ==
    SelectSeq(handed, LAMBDA entry : entry.job_name = job_name)

\* C32: run_job does not remember the prerequisites it ran.  When it has
\* returned, every job was run once for every path of registered edges from
\* the requested job to it, an edge registered twice counting twice: each of
\* its tasks was handed to the backend that many times.
C32_RunOncePerPath ==
    run.status = "returned" =>
        \A job_name \in ResolveJobs :
            LET tasks == CollectedTasks(registrations_by_hook, job_name, run.limit_to)
                paths == PathCount(PrereqEdgeList, run.job_name, job_name, 1)
            IN  /\ Len(HandedFor(job_name)) = paths * Len(tasks)
                /\ \A k \in DOMAIN tasks :
                       Len(SelectSeq(HandedFor(job_name),
                                     LAMBDA entry : entry.service = tasks[k][1]))
                           = paths * Len(SelectSeq(tasks,
                                     LAMBDA task : task[1] = tasks[k][1]))

\* A diamond: init has the prerequisites pre-init and createuser, createuser
\* has the prerequisite pre-init; run_job("init") has returned and the task of
\* pre-init was handed twice.
C32_Witness ==
    /\ run.status = "returned"
    /\ run.job_name = "init"
    /\ PrereqEdgeList = <<<<"init", "pre-init">>, <<"init", "createuser">>,
                          <<"createuser", "pre-init">>>>
    /\ Len(handed) = 2
    /\ \A i \in DOMAIN handed : handed[i].job_name = "pre-init"

\* The edge init -> pre-init registered twice: run_job("init") has returned and
\* the task of pre-init was handed twice.
C32_TwiceWitness ==
    /\ run.status = "returned"
    /\ run.job_name = "init"
    /\ PrereqEdgeList = <<<<"init", "pre-init">>, <<"init", "pre-init">>>>
    /\ Len(handed) = 2
    /\ \A i \in DOMAIN handed : handed[i].job_name = "pre-init"

\* A hook name that nothing was ever registered for
UnknownHook == "test:unknown"

\* What clear(name, context) may do to a dict of hooks: the entries of the other
\* names are as before; without a context the entry of name is empty; a name
\* with no entry, or with an empty one, leaves the dict as it was.
ClearsOnly(before, after, name, context) ==
    /\ DOMAIN after = DOMAIN before
    /\ \A other \in DOMAIN before \ {name} : after[other] = before[other]
    /\ name \in DOMAIN before =>
           /\ context = None => after[name] = <<>>
           /\ before[name] = <<>> => after[name] = <<>>
           /\ Len(after[name]) <= Len(before[name])
    /\ name \notin DOMAIN before => after = before

\* C33: clear(name, scope) changes the registrations of the hook called name
\* only: those of every other hook are as before; without a scope no
\* registration of that hook is left, scoped or not; for a name with no
\* registration nothing changes.  Stated of the result of the operation in every
\* reachable state, for the registry of hooks.py and for Actions.clear and
\* Filters.clear.
C33_ClearFrame ==
    \A name \in HookNames \cup {UnknownHook}, context \in OptContexts :
        /\ ClearsOnly(registrations_by_hook,
                      RegistryClear(registrations_by_hook, name, context),
                      name, context)
        /\ ClearsOnly(actions, ContextualizedClear(actions, name, context),
                      name, context)
        /\ ClearsOnly(filters, ContextualizedClear(filters, name, context),
                      name, context)

\* Three callbacks were registered, two of them on the filter, one in a
\* context and one outside; a clear without a scope left none on the filter
\* and the one of the action in place.
C33_Witness ==
    /\ hooks_module = "hooks.py"
    /\ next_id = 4
    /\ registrations_by_hook["test:sheeps"] = <<>>
    /\ Len(registrations_by_hook["core:ready"]) = 1
    /\ registrations_by_hook["core:ready"][1].callback.id = 2
    /\ current_contexts = <<>>

\* How many times a fire called the callback of identity id
TimesCalled(id) == Len(SelectSeq(last.result, LAMBDA called : called = id))

\* C34: when a callback called by a fire of an action registers another
\* callback on that action, with any priority, every callback that was
\* registered when the fire began is called exactly once by it: none is called
\* twice while the fire goes on, and none was skipped when it has returned.
C34_EachCalledOnce ==
    /\ last.op \in {"firing", "fired"} =>
           \A id \in Range(last.registered) : TimesCalled(id) <= 1
    /\ last.op = "fired" =>
           \A id \in Range(last.registered) : TimesCalled(id) = 1

\* A fire in which a callback registered a callback of a priority greater than
\* or equal to its own has returned: each callback was called once.
C34_LaterWitness ==
    /\ last.op = "fired"
    /\ Len(last.registered) = 2
    /\ Len(last.result) = 3
    /\ \A id \in Range(last.registered) : TimesCalled(id) = 1

\* The explicit integer priorities a caller gives, 0 among them
ExplicitPriorities == {0, EARLY, DEFAULT}

\* Where a callback of priority p belongs in a list kept in ascending order of
\* priority, the callbacks of equal priority being in registration order
PlaceOf(priorities, priority) ==
    1 + Cardinality({i \in DOMAIN priorities : priorities[i] <= priority})

\* The registry of hooks.py orders a callback registered with the explicit
\* priority p as priority p.
RegistryKeepsPriority ==
    \A name \in HookNames, p \in ExplicitPriorities :
        LET before == registrations_by_hook[name]
            after == RegistryRegister(before, current_contexts,
                                      ItemsCallback(next_id, <<next_id>>), Some(p))
            place == PlaceOf([i \in DOMAIN before |-> before[i].priority], p)
        IN  /\ after[place].callback.id = next_id
            /\ after[place].priority = p

\* Actions.on of hooks/actions.py orders a callback registered with the
\* explicit priority p as priority p.
ActionsKeepPriority ==
    \A name \in ActionNames, p \in ExplicitPriorities :
        LET before == actions[name]
            after == ActionsOn(before, CURRENT,
                               ItemsCallback(next_id, <<next_id>>), Some(p))
            place == PlaceOf([i \in DOMAIN before |-> before[i].priority], p)
        IN  /\ after[place].func.id = next_id
            /\ after[place].priority = p

\* C35: a callback registered with an explicit integer priority p is ordered
\* as priority p, for every p, 0 included: it is put after the callbacks of
\* priority p or less and before those of a greater priority.  Stated of the
\* result of a registration in every reachable state in which a callback of the
\* EARLY priority is registered.
C35_ExplicitPriorityKept ==
    \A name \in ActionNames :
        /\ (/\ hooks_module = "hooks.py"
            /\ \E i \in DOMAIN registrations_by_hook[name] :
                   registrations_by_hook[name][i].priority = EARLY)
               => RegistryKeepsPriority
        /\ (/\ hooks_module = "hooks/"
            /\ \E i \in DOMAIN actions[name] : actions[name][i].priority = EARLY)
               => ActionsKeepPriority

\* The status poll reports the job not active with both its succeeded and its
\* failed flag set.
IsBothFlagsPoll(entry) ==
    IsInactivePoll(entry) /\ entry.value[1].succeeded /\ entry.value[1].failed

\* C36: when the submitted job is reported not active with both its succeeded
\* and its failed flag set (a retry within backoffLimit succeeded after a failed
\* attempt), run_task returns 0 and does not raise: such a poll is the last
\* operation of a call that has returned.
C36_SucceededAfterRetry ==
    \A r \in DOMAIN k8s_calls :
        LET log == k8s_calls[r].log
        IN  \A i \in DOMAIN log :
                IsBothFlagsPoll(log[i]) =>
                    /\ i = Len(log)
                    /\ k8s_calls[r].pc = "returned"
                    /\ k8s_calls[r].outcome = Returned

\* A call saw its job active, slept, and returned on the poll that reported
\* the job not active with both flags set.
C36_Witness ==
    \E r \in DOMAIN k8s_calls :
        LET log == k8s_calls[r].log
        IN  /\ k8s_calls[r].outcome = Returned
            /\ Len(log) = 6
            /\ IsApply(log[3])
            /\ IsStatusPoll(log[4]) /\ log[4].value /= <<>> /\ log[4].value[1].active
            /\ IsSleep(log[5])
            /\ IsBothFlagsPoll(log[6])

\* C37: the local backend does the compose-project-started action only when
\* the subcommand of docker-compose is start, up or restart; a run of a one-off
\* job container (run_job, subcommand run) never does it, whatever the text of
\* the command of the job.
C37_StartedBySubcommandOnly ==
    last.op = "docker_compose" =>
        \A i \in DOMAIN last.result :
            LET call == last.result[i]
            IN  /\ call.started <=> Subcommand(call.command) \in {"start", "up", "restart"}
                /\ call.via = "run_job" =>
                       Subcommand(call.command) = "run" /\ ~call.started

\* What holds of the code: the action is done exactly when an argument of the
\* command line is the word start, up or restart, and a job whose command is
\* not one of these words does not do it.
C37_StartedByAnyArgument ==
    last.op = "docker_compose" =>
        \A i \in DOMAIN last.result :
            LET call == last.result[i]
                command == call.command
            IN  /\ call.started <=>
                       \E k \in DOMAIN command : command[k] \in {"start", "up", "restart"}
                /\ (call.via = "run_job"
                        /\ command[Len(command)] \notin {"start", "up", "restart"})
                       => ~call.started

\* The patches of the Caddyfile that the plugin contributed and that
\* iter_patches yields
PatchesOf(plugin, declared) ==
    SelectSeq(IterPatches(registrations_by_hook, "caddyfile"),
              LAMBDA content : content.plugin = plugin /\ content.declared = declared)

\* C38: after disable(p), iter_patches(name) yields no patch content that the
\* plugin p contributed, neither a patch it registered with ENV_PATCH(name) nor
\* a patch it declared as a pair (name, content) of ENV_PATCHES and that was
\* converted when the plugins had been loaded.
C38_NoPatchAfterDisable ==
    last.op = "disable" =>
        /\ PatchesOf(last.name, "ENV_PATCH") = <<>>
        /\ PatchesOf(last.name, "ENV_PATCHES") = <<>>

\* What holds of the code: after disable(p) no patch that p registered with
\* ENV_PATCH(name) is yielded, and no pair of p is left in ENV_PATCHES.
C38_DirectPatchesGone ==
    last.op = "disable" =>
        /\ PatchesOf(last.name, "ENV_PATCH") = <<>>
        /\ \A i \in DOMAIN EnvPatches(registrations_by_hook) :
               EnvPatches(registrations_by_hook)[i][2].plugin /= last.name

----------------------------------------------------------------------------
(* C11 *)

IsRaisedCall(call) == call.op \in {"fire raised", "apply raised", "do raised"}

\* The callbacks that a call with the scope of the call visits when none raises
SelectedIds(call) ==
    LET entries == Entries(call.name)
        selected == SelectSeq(entries,
                        LAMBDA e : call.context = None \/ call.context[1] \in e.scopes)
    IN  [i \in DOMAIN selected |-> selected[i].id]

\* C11: a fire / apply / do in which a selected callback raises ends by that
\* exception: the callbacks invoked are those before the raising one in the
\* order of the call and the raising one itself, each once and none after it,
\* and the step leaves the registrations of every hook as they were.
C11_RaiseAborts ==
    [][IsRaisedCall(last') =>
           /\ UNCHANGED <<registrations_by_hook, actions, filters>>
           /\ LET selected == SelectedIds(last')
              IN  \E k \in DOMAIN selected :
                      /\ selected[k] = last'.raiser
                      /\ last'.result = SubSeq(selected, 1, k)]_vars

\* Three callbacks handle "core:ready"; the second in the order raised in a fire:
\* the first and the second were called, the third was not.
C11_Witness ==
    /\ hooks_module = "hooks.py"
    /\ Len(registrations_by_hook["core:ready"]) = 3
    /\ last.op = "fire raised"
    /\ last.context = None
    /\ last.raiser = registrations_by_hook["core:ready"][2].callback.id
    /\ last.result = <<registrations_by_hook["core:ready"][1].callback.id,
                       registrations_by_hook["core:ready"][2].callback.id>>

----------------------------------------------------------------------------
(* C12 *)

\* The items of the entries, one entry after the other
RECURSIVE AllItems(_)
AllItems(items_of_entries) ==
    IF items_of_entries = <<>> THEN <<>>
    ELSE Head(items_of_entries) \o AllItems(Tail(items_of_entries))

\* The items that the callback of that identity adds
CallbackItems(name, id) ==
    IF hooks_module = "hooks.py"
    THEN (CHOOSE r \in Range(registrations_by_hook[name]) : r.callback.id = id).callback.items
    ELSE (CHOOSE f \in Range(filters[name]) : f.func.id = id).func.items

\* The items given to add_item / add_items by the callbacks that the call
\* selects, in the order of their registration (the identities are given out
\* in that order).
ItemsInRegistrationOrder(call) ==
    LET ids == Range(SelectedIds(call))
        nth(k) == CHOOSE id \in ids : Cardinality({other \in ids : other < id}) = k - 1
    IN  AllItems([k \in 1..Cardinality(ids) |-> CallbackItems(call.name, nth(k))])

\* C12: in an apply the first selected callback receives the starting value,
\* each later one the value returned by the one before it, the callbacks called
\* are the selected ones in their order, and the result is the value returned
\* by the last one (the starting value when none is selected); with callbacks
\* of add_item / add_items the result is the starting list followed by the
\* items of the selected callbacks in registration order.
C12_ApplyChainsValues ==
    (last.op = "apply") =>
        LET steps == last.steps
        IN  /\ [i \in DOMAIN steps |-> steps[i].id] = SelectedIds(last)
            /\ steps /= <<>> => steps[1].received = last.starting_value
            /\ \A i \in 1..(Len(steps) - 1) : steps[i + 1].received = steps[i].returned
            /\ last.result = IF steps = <<>> THEN last.starting_value
                             ELSE steps[Len(steps)].returned
            /\ last.result = last.starting_value \o ItemsInRegistrationOrder(last)

\* A callback adding one item, one adding one item and one adding two items,
\* applied to [0]: the result is [0, 11, 21, 31, 32].
C12_Witness ==
    /\ last.op = "apply"
    /\ last.context = None
    /\ last.starting_value = <<0>>
    /\ last.result = <<0, 11, 21, 31, 32>>

----------------------------------------------------------------------------
(* C13, C14, C15 *)

\* The stack of the contexts that are entered
ContextStack == IF hooks_module = "hooks.py" THEN current_contexts ELSE CURRENT

\* The names pushed by the blocks, outermost first
RECURSIVE NamesOf(_)
NamesOf(blocks) ==
    IF blocks = <<>> THEN <<>> ELSE Head(blocks).names \o NamesOf(Tail(blocks))

\* C13: the stack of contexts is always the names pushed by the blocks in
\* progress, outermost first, on top of nothing else: each block found the
\* stack as the blocks around it had left it, and when a block has been left, by
\* the end of its body or by an exception, the stack is the one found at its
\* enter, whatever the nesting.
C13_ExitRestoresStack ==
    /\ ContextStack = NamesOf(with_blocks)
    /\ \A i \in DOMAIN with_blocks :
           with_blocks[i].before = NamesOf(SubSeq(with_blocks, 1, i - 1))
    /\ last.op = "exit" =>
           /\ last.after = last.before
           /\ ContextStack = last.after

\* In the hooks/ package, enter("ctx1", "ctx2") inside enter("ctx1") has been
\* left by an exception: the stack is ["ctx1"] again.
C13_Witness ==
    /\ hooks_module = "hooks/"
    /\ last.op = "exit"
    /\ last.raised
    /\ last.names = <<"ctx1", "ctx2">>
    /\ last.before = <<"ctx1">>
    /\ Len(with_blocks) = 1
    /\ CURRENT = <<"ctx1">>

\* The result of apply(name, [], context) in the given state of the hooks
AppliedIn(registry, named_filters, name, context) ==
    IF hooks_module = "hooks.py"
    THEN FilterApply(registry, name, <<>>, context)
    ELSE FiltersApply(named_filters[name], <<>>, context)

\* The registrations of the hook after clear(name, context) in the given state
ClearedIn(registry, named_filters, name, context) ==
    EntriesIn(RegistryClear(registry, name, context), actions,
              ContextualizedClear(named_filters, name, context), name)

\* C14: a registration made while blocks are in progress is tagged with every
\* name pushed by them, outer and inner; for each of these names an apply
\* scoped to it calls the registration and a clear scoped to it removes it.
C14_NestedAdditive ==
    [][next_id' = next_id + 1 =>
           \A name \in FilterNames :
               \A e \in Range(EntriesIn(registrations_by_hook', actions', filters', name)) :
                   e.id = next_id =>
                       /\ e.scopes = Range(ContextStack)
                       /\ \A c \in e.scopes :
                              /\ e.id \in Range(AppliedIn(registrations_by_hook',
                                                          filters', name, Some(c)))
                              /\ e.id \notin Ids(ClearedIn(registrations_by_hook',
                                                          filters', name, Some(c)))]_vars

\* A registration was made inside enter_context("ctx1") and, nested in it,
\* enter_context("ctx2"); it is tagged with both, and an apply scoped to the
\* outer name ctx1 has called it.
C14_Witness ==
    /\ hooks_module = "hooks.py"
    /\ current_contexts = <<"ctx1", "ctx2">>
    /\ Len(registrations_by_hook["test:sheeps"]) = 1
    /\ registrations_by_hook["test:sheeps"][1].contexts = {"ctx1", "ctx2"}
    /\ last.op = "apply"
    /\ last.context = Some("ctx1")
    /\ last.result = <<registrations_by_hook["test:sheeps"][1].callback.id>>

\* C15: a registration is tagged with the names on the stack at the step that
\* makes it, and no later step (leaving a block, entering another one, another
\* registration, an apply) changes the scopes of a registration that remains.
C15_ScopesFrozen ==
    [][\/ UNCHANGED <<registrations_by_hook, actions, filters>>
       \/ \A name \in FilterNames :
              LET before == Entries(name)
                  after == EntriesIn(registrations_by_hook', actions', filters', name)
              IN  \A e \in Range(after) :
                      IF e.id \in Ids(before)
                      THEN e.scopes = before[PositionOf(before, e.id)].scopes
                      ELSE e.scopes = Range(ContextStack)]_vars

\* A registration was made inside enter_context("ctx1"); the block was left and
\* the block enter_context("ctx2") is in progress: the registration is still
\* tagged with ctx1 only.
C15_Witness ==
    /\ hooks_module = "hooks.py"
    /\ current_contexts = <<"ctx2">>
    /\ Len(registrations_by_hook["test:sheeps"]) = 1
    /\ registrations_by_hook["test:sheeps"][1].contexts = {"ctx1"}

====
